---- MODULE Spec2Model ----
(***************************************************************************)
(* mongoose-schema-extractor: the Schema Walker (src/src/lib/extractor.ts), *)
(* the entry point extractSchemas (src/src/index.ts, and the legacy         *)
(* index.js kept at the end of src/src/lib/formatter.ts) and the Format     *)
(* Renderers (src/src/lib/formatter.ts).                                    *)
(*                                                                         *)
(* JavaScript objects whose key order is observable (a model registry, a   *)
(* Model Schema, `properties`) are sequences of <<key, value>> entries in  *)
(* insertion order; a Field Descriptor and a Mongoose SchemaType are        *)
(* functions from key to value, an absent key being `undefined`.  A value   *)
(* whose JavaScript type varies is tagged by its key: [str |-> "x"],        *)
(* [num |-> 3], [bool |-> TRUE], [null |-> TRUE], [fn |-> "now"].           *)
(***************************************************************************)
EXTENDS Integers, Sequences, FiniteSets, TLC

VARIABLES
    impl,          \* which entry point runs: "ts" (src/index.ts) or "js" (index.js)
    input,         \* first argument of extractSchemas
    options,       \* second argument of extractSchemas
    pc,            \* position inside extractSchemas
    models,        \* const models  (index.ts:25)
    includeFlags,  \* const includeFlags (index.ts:58)
    optsFormat,    \* opts.format (index.ts:50-56)
    idx,           \* position of the for-of loop over Object.entries(models)
    schemas,       \* const schemas (index.ts:68)
    visited,       \* const visited = new WeakSet() (index.ts:69)
    result,        \* what the call returned or threw
    calls,         \* number of extractSchemas calls started
    prev           \* result of the previous call

vars == <<impl, input, options, pc, models, includeFlags, optsFormat, idx,
          schemas, visited, result, calls, prev>>

----------------------------------------------------------------------------
(* JavaScript object helpers                                                *)

Has(o, k) == k \in DOMAIN o

\* o[k] = v
Set(o, k, v) == [x \in DOMAIN o \cup {k} |-> IF x = k THEN v ELSE o[x]]

\* { ...a, ...b } : the keys of b win
Spread(a, b) == [x \in DOMAIN a \cup DOMAIN b |-> IF x \in DOMAIN b THEN b[x] ELSE a[x]]

Empty == [x \in {} |-> TRUE]

\* entries: index of key k in a sequence of <<key, value>> entries, 0 if absent
RECURSIVE IndexOf(_, _, _)
IndexOf(entries, k, i) ==
    IF i > Len(entries) THEN 0
    ELSE IF entries[i][1] = k THEN i
    ELSE IndexOf(entries, k, i + 1)

HasKey(entries, k) == IndexOf(entries, k, 1) # 0

Get(entries, k) == entries[IndexOf(entries, k, 1)][2]

\* obj[k] = v : replaces the value in place if the key exists, else appends
Put(entries, k, v) ==
    LET i == IndexOf(entries, k, 1)
    IN IF i = 0 THEN Append(entries, <<k, v>>)
       ELSE [entries EXCEPT ![i] = <<k, v>>]

Keys(entries) == [i \in 1..Len(entries) |-> entries[i][1]]

KeySet(entries) == {entries[i][1] : i \in 1..Len(entries)}

\* truthiness of a tagged JavaScript value
Truthy(v) ==
    IF Has(v, "bool") THEN v.bool
    ELSE IF Has(v, "num") THEN v.num # 0
    ELSE IF Has(v, "str") THEN v.str # ""
    ELSE IF Has(v, "null") THEN FALSE
    ELSE TRUE

\* a plain string stored where a descriptor is expected
JsString(s) == [jsString |-> s]

----------------------------------------------------------------------------
(* constants.ts                                                             *)

MONGOOSE_TYPES ==
    [ STRING |-> "String", NUMBER |-> "Number", DATE |-> "Date",
      BOOLEAN |-> "Boolean", OBJECT_ID |-> "ObjectId",
      OBJECT_ID_LEGACY |-> "ObjectID", DECIMAL128 |-> "Decimal128",
      BUFFER |-> "Buffer", MIXED |-> "Mixed", ARRAY |-> "Array",
      EMBEDDED |-> "Embedded", DOCUMENT |-> "Document", MAP |-> "Map",
      VIRTUAL |-> "Virtual" ]

\* depth: 10 in the defaults of extractSchemas
DefaultDepth == 10

\* the 10 of (options.depth || 10) in extractCompletePathInfo
FallbackDepth == 10

----------------------------------------------------------------------------
(* Schema Walker: src/src/lib/extractor.ts                                  *)

\* schemaType.options?.k is set and truthy, for a flag k holding a boolean
OptFlag(schemaType, k) ==
    /\ Has(schemaType, "options")
    /\ Has(schemaType.options, k)
    /\ schemaType.options[k] = TRUE

\* schemaType.options?.k is set and truthy, for a k holding a number
OptNum(schemaType, k) ==
    /\ Has(schemaType, "options")
    /\ Has(schemaType.options, k)
    /\ schemaType.options[k] # 0

\* schemaType.options?.k !== undefined
OptDefined(schemaType, k) ==
    /\ Has(schemaType, "options")
    /\ Has(schemaType.options, k)

\* schemaType.enumValues && schemaType.enumValues.length > 0
HasEnumValues(schemaType) ==
    /\ Has(schemaType, "enumValues")
    /\ Len(schemaType.enumValues) > 0

\* String(regex) of the pattern held in options.match (a regex or [regex, message]);
\* a pattern is kept as its sequence of characters
PatternOf(match) == <<"/">> \o match.regex \o <<"/">>

\* variant of DepthExceeded that cuts one level early: depth >= (options.depth || 10)
DepthExceededEarly(depth, opts) ==
    depth >= (IF Has(opts, "depth") /\ opts.depth # 0 THEN opts.depth ELSE FallbackDepth)

\* variant of DepthExceeded that lets one more level through
DepthExceededLate(depth, opts) ==
    depth > 1 + (IF Has(opts, "depth") /\ opts.depth # 0 THEN opts.depth ELSE FallbackDepth)

\* depth > (options.depth || 10)
DepthExceeded(depth, opts) ==
    depth > (IF Has(opts, "depth") /\ opts.depth # 0 THEN opts.depth ELSE FallbackDepth)

\* variant of TruncationInfo that leaves an items descriptor on the cut field
TruncationWithItems ==
    [type |-> MONGOOSE_TYPES.MIXED, note |-> "Max depth reached", items |-> [type |-> "Mixed"]]

TruncationInfo == [type |-> MONGOOSE_TYPES.MIXED, note |-> "Max depth reached"]

\* the instance name taken as it is, the legacy name not normalised
InstanceRaw(schemaType) ==
    IF ~Has(schemaType, "instance") THEN "" ELSE schemaType.instance

\* const instance = rawInstance === 'ObjectID' ? 'ObjectId' : rawInstance
InstanceOf(schemaType) ==
    IF ~Has(schemaType, "instance") THEN ""
    ELSE IF schemaType.instance = MONGOOSE_TYPES.OBJECT_ID_LEGACY
         THEN MONGOOSE_TYPES.OBJECT_ID
         ELSE schemaType.instance

\* case String
StringInfo(schemaType) ==
    LET i0 == [type |-> MONGOOSE_TYPES.STRING]
        i1 == IF HasEnumValues(schemaType)
              THEN Set(Set(i0, "enum", schemaType.enumValues),
                       "enumCount", Len(schemaType.enumValues))
              ELSE i0
        i2 == IF OptNum(schemaType, "minlength")
              THEN Set(i1, "minLength", schemaType.options.minlength) ELSE i1
        i3 == IF OptNum(schemaType, "maxlength")
              THEN Set(i2, "maxLength", schemaType.options.maxlength) ELSE i2
        i4 == IF OptDefined(schemaType, "match")
              THEN Set(i3, "pattern", PatternOf(schemaType.options.match)) ELSE i3
        i5 == IF OptFlag(schemaType, "lowercase") THEN Set(i4, "lowercase", TRUE) ELSE i4
        i6 == IF OptFlag(schemaType, "uppercase") THEN Set(i5, "uppercase", TRUE) ELSE i5
    IN IF OptFlag(schemaType, "trim") THEN Set(i6, "trim", TRUE) ELSE i6

\* case Number
NumberInfo(schemaType) ==
    LET i0 == [type |-> MONGOOSE_TYPES.NUMBER]
        i1 == IF OptDefined(schemaType, "min")
              THEN Set(i0, "min", schemaType.options.min) ELSE i0
        i2 == IF OptDefined(schemaType, "max")
              THEN Set(i1, "max", schemaType.options.max) ELSE i1
    IN IF HasEnumValues(schemaType) THEN Set(i2, "enum", schemaType.enumValues)
       ELSE IF OptDefined(schemaType, "enum")
            THEN Set(i2, "enum", schemaType.options.enum)
       ELSE i2

\* case Date
DateInfo(schemaType) ==
    LET i0 == [type |-> MONGOOSE_TYPES.DATE]
        i1 == IF OptDefined(schemaType, "min") /\ Truthy(schemaType.options.min)
              THEN Set(i0, "minDate", schemaType.options.min) ELSE i0
    IN IF OptDefined(schemaType, "max") /\ Truthy(schemaType.options.max)
       THEN Set(i1, "maxDate", schemaType.options.max) ELSE i1

\* case ObjectId
ObjectIdInfo(schemaType) ==
    LET i0 == [type |-> MONGOOSE_TYPES.OBJECT_ID]
    IN IF OptDefined(schemaType, "ref") /\ schemaType.options.ref # ""
       THEN Set(i0, "ref", schemaType.options.ref) ELSE i0

\* default: info.type = instance || 'Mixed'
DefaultInfo(instance) ==
    [type |-> IF instance # "" THEN instance ELSE MONGOOSE_TYPES.MIXED]

\* v => ({type, message: v.message || 'Validation failed', validator: v.validator ? '[Function]' : undefined})
ValidatorInfo(v) ==
    LET i0 == [type |-> v.type,
               message |-> IF Has(v, "message") /\ v.message # ""
                           THEN v.message ELSE "Validation failed"]
    IN IF Has(v, "validator") THEN Set(i0, "validator", "[Function]") ELSE i0

\* variant of FunctionMarker that calls the function and keeps what it returns
FunctionCalled(fn) == IF Has(fn, "body") THEN fn.body ELSE ""

\* fn.name ? `[Function ${fn.name}]` : '[Function]'
FunctionMarker(fn) ==
    IF fn.fn # "" THEN "[Function " \o fn.fn \o "]" ELSE "[Function]"

\* options.includeDefaults && schemaType.options?.default !== undefined
DefaultsStep(info, schemaType, opts) ==
    IF opts.includeDefaults /\ OptDefined(schemaType, "default")
    THEN Set(Set(info, "hasDefault", TRUE), "defaultValue",
             IF Has(schemaType.options.default, "fn")
             THEN [str |-> FunctionMarker(schemaType.options.default)]
             ELSE schemaType.options.default)
    ELSE info

\* if (options.includeIndexes) { indexed, sparse }
IndexesStep(info, schemaType, opts) ==
    IF opts.includeIndexes
    THEN LET i1 == IF OptDefined(schemaType, "index") /\ Truthy(schemaType.options.index)
                   THEN Set(info, "indexed", schemaType.options.index) ELSE info
         IN IF OptFlag(schemaType, "sparse") THEN Set(i1, "sparse", TRUE) ELSE i1
    ELSE info

\* options.includeValidators && schemaType.validators && schemaType.validators.length > 0
ValidatorsStep(info, schemaType, opts) ==
    IF /\ opts.includeValidators
       /\ Has(schemaType, "validators")
       /\ Len(schemaType.validators) > 0
    THEN Set(Set(Set(info, "hasValidators", TRUE),
                 "validatorCount", Len(schemaType.validators)),
             "validators",
             [i \in 1..Len(schemaType.validators) |-> ValidatorInfo(schemaType.validators[i])])
    ELSE info

\* the part of extractCompletePathInfo after the switch, applied to every kind
CommonInfo(info, schemaType, opts) ==
    LET i1 == IF OptFlag(schemaType, "required")
                 \/ (Has(schemaType, "isRequired") /\ schemaType.isRequired)
              THEN Set(info, "required", TRUE) ELSE info
        i2 == DefaultsStep(i1, schemaType, opts)
        i3 == IF OptFlag(schemaType, "unique") THEN Set(i2, "unique", TRUE) ELSE i2
        i4 == IndexesStep(i3, schemaType, opts)
        i5 == IF OptDefined(schemaType, "select")
              THEN Set(i4, "select", schemaType.options.select) ELSE i4
        i6 == IF OptFlag(schemaType, "immutable") THEN Set(i5, "immutable", TRUE) ELSE i5
    IN ValidatorsStep(i6, schemaType, opts)

----------------------------------------------------------------------------
(* The objects handed to the Walker: Mongoose schemas, by identity.  A     *)
(* SchemaType that embeds a sub-document names its schema by identity      *)
(* (schemaType.schema), which is what the WeakSet `visited` holds.         *)

NoOptions == Empty

RequiredValidator == [type |-> "required", message |-> "Path is required.", validator |-> "fn"]

MinLengthValidator == [type |-> "minlength", validator |-> "fn"]

\* an Array SchemaType nested n levels around a String element
RECURSIVE NestedArray(_)
NestedArray(n) ==
    IF n = 0 THEN [instance |-> "String", options |-> NoOptions]
    ELSE [instance |-> "Array", options |-> NoOptions, caster |-> NestedArray(n - 1)]

\* levels of array nesting of the field `grid`
GridLevels == 3

UserPaths ==
    << <<"_id", [instance |-> "ObjectID", options |-> [auto |-> TRUE]]>>,
       <<"username", [instance |-> "String",
                      options |-> [required |-> TRUE, unique |-> TRUE,
                                   minlength |-> 3, maxlength |-> 30, trim |-> TRUE],
                      isRequired |-> TRUE,
                      validators |-> <<RequiredValidator, MinLengthValidator>>]>>,
       <<"email", [instance |-> "String",
                   options |-> [required |-> TRUE, unique |-> TRUE, lowercase |-> TRUE,
                                match |-> [regex |-> <<"^", "\\", "S", "+", "@", "\\", ".", "$">>],
                                index |-> [bool |-> TRUE], sparse |-> TRUE],
                   validators |-> <<RequiredValidator>>]>>,
       <<"age", [instance |-> "Number", options |-> [min |-> 13]]>>,
       <<"role", [instance |-> "String",
                  enumValues |-> <<[str |-> "user"], [str |-> "admin"]>>,
                  options |-> [default |-> [str |-> "user"]]]>>,
       <<"posts", [instance |-> "Array", options |-> NoOptions,
                   caster |-> [instance |-> "ObjectId", options |-> [ref |-> "Post"]]]>>,
       <<"profile", [instance |-> "Embedded", options |-> NoOptions,
                     schema |-> "ProfileSchema"]>>,
       <<"address.city", [instance |-> "String", options |-> NoOptions]>>,
       <<"__v", [instance |-> "Number", options |-> NoOptions]>> >>

PostPaths ==
    << <<"_id", [instance |-> "ObjectId", options |-> [auto |-> TRUE]]>>,
       <<"title", [instance |-> "String",
                   options |-> [required |-> TRUE, maxlength |-> 200]]>>,
       <<"author", [instance |-> "ObjectId",
                    options |-> [ref |-> "User", required |-> TRUE,
                                 index |-> [bool |-> TRUE]]]>>,
       <<"tags", [instance |-> "Array", options |-> NoOptions,
                  caster |-> [instance |-> "String", options |-> NoOptions]]>>,
       <<"publishedAt", [instance |-> "Date", options |-> [default |-> [null |-> TRUE]]]>>,
       <<"createdAt", [instance |-> "Date",
                       options |-> [required |-> TRUE, default |-> [fn |-> "now"],
                                    immutable |-> TRUE]]>>,
       <<"meta", [instance |-> "Map", options |-> NoOptions,
                  schemaType |-> [instance |-> "String", options |-> NoOptions]]>>,
       <<"comments", [instance |-> "Array", options |-> NoOptions,
                      caster |-> [instance |-> "Embedded", options |-> NoOptions,
                                  schema |-> "CommentSchema"]]>>,
       <<"score", [instance |-> "Number",
                   options |-> [min |-> 0, max |-> 5, enum |-> <<[num |-> 0], [num |-> 5]>>,
                                select |-> FALSE, default |-> [fn |-> ""]]]>>,
       <<"__v", [instance |-> "Number", options |-> NoOptions]>> >>

ProfilePaths ==
    << <<"_id", [instance |-> "ObjectId", options |-> NoOptions]>>,
       <<"bio", [instance |-> "String",
                 options |-> [maxlength |-> 500, default |-> [str |-> ""]]]>>,
       <<"avatar", [instance |-> "Buffer", options |-> NoOptions]>>,
       <<"home", [instance |-> "Embedded", options |-> NoOptions,
                  schema |-> "AddressSchema"]>>,
       <<"work", [instance |-> "Embedded", options |-> NoOptions,
                  schema |-> "AddressSchema"]>>,
       <<"__v", [instance |-> "Number", options |-> NoOptions]>> >>

AddressPaths ==
    << <<"city", [instance |-> "String",
                  options |-> [required |-> TRUE, index |-> [str |-> "text"]],
                  validators |-> <<RequiredValidator>>]>>,
       <<"geo", [instance |-> "Array", options |-> NoOptions,
                 embeddedSchemaType |-> [instance |-> "Number", options |-> NoOptions]]>> >>

CommentPaths ==
    << <<"author", [instance |-> "ObjectId",
                    options |-> [ref |-> "User", required |-> TRUE]]>>,
       <<"body", [instance |-> "String", options |-> [required |-> TRUE]]>> >>

\* a sub-document schema that embeds itself
NodePaths ==
    << <<"value", [instance |-> "Number", options |-> NoOptions]>>,
       <<"child", [instance |-> "Document", options |-> NoOptions,
                   schema |-> "NodeSchema"]>> >>

\* two schemas that embed each other
APaths ==
    << <<"name", [instance |-> "String", options |-> NoOptions]>>,
       <<"b", [instance |-> "Embedded", options |-> NoOptions, schema |-> "BSchema"]>> >>

BPaths ==
    << <<"a", [instance |-> "Embedded", options |-> NoOptions, schema |-> "ASchema"]>>,
       <<"note", [instance |-> "String", options |-> [default |-> [str |-> "n/a"]]]>> >>

TreePaths ==
    << <<"label", [instance |-> "String", options |-> NoOptions]>>,
       <<"root", [instance |-> "Embedded", options |-> NoOptions, schema |-> "NodeSchema"]>>,
       <<"entry", [instance |-> "Embedded", options |-> NoOptions, schema |-> "ASchema"]>>,
       <<"grid", NestedArray(GridLevels)>>,
       <<"balance", [instance |-> "Decimal128", options |-> NoOptions]>>,
       <<"active", [instance |-> "Boolean", options |-> [default |-> [bool |-> TRUE]]]>>,
       <<"blob", [instance |-> "Mixed", options |-> NoOptions]>>,
       <<"point", [instance |-> "Point", options |-> NoOptions]>>,
       <<"bare", [options |-> NoOptions]>>,
       <<"loose", [instance |-> "Embedded", options |-> NoOptions]>>,
       <<"list", [instance |-> "Array", options |-> NoOptions]>>,
       <<"dict", [instance |-> "Map", options |-> NoOptions,
                  schemaTypeInternal |-> [instance |-> "Embedded", options |-> NoOptions,
                                          schema |-> "AddressSchema"]]>> >>

\* a sub-document schema with a reference among its paths
ShippingPaths ==
    << <<"carrier", [instance |-> "ObjectId",
                     options |-> [ref |-> "Carrier", required |-> TRUE],
                     isRequired |-> TRUE, validators |-> <<RequiredValidator>>]>>,
       <<"depot", [instance |-> "ObjectId", options |-> [ref |-> "Depot"]]>>,
       <<"note", [instance |-> "String", options |-> NoOptions]>> >>

\* a schema with a direct reference, arrays of references and an embedded
\* sub-document that holds references
OrderPaths ==
    << <<"_id", [instance |-> "ObjectId", options |-> [auto |-> TRUE]]>>,
       <<"customer", [instance |-> "ObjectId",
                      options |-> [ref |-> "User", required |-> TRUE],
                      isRequired |-> TRUE, validators |-> <<RequiredValidator>>]>>,
       <<"coupon", [instance |-> "ObjectId", options |-> [ref |-> "Coupon"]]>>,
       <<"lines", [instance |-> "Array", options |-> [required |-> TRUE],
                   isRequired |-> TRUE,
                   caster |-> [instance |-> "ObjectId", options |-> [ref |-> "Product"]]]>>,
       <<"labels", [instance |-> "Array", options |-> NoOptions,
                    caster |-> [instance |-> "String", options |-> NoOptions]]>>,
       <<"shipping", [instance |-> "Embedded", options |-> NoOptions,
                      schema |-> "ShippingSchema"]>>,
       <<"billing", [instance |-> "Embedded", options |-> NoOptions,
                     schema |-> "ShippingSchema"]>>,
       <<"__v", [instance |-> "Number", options |-> NoOptions]>> >>

SchemaHeap ==
    [ UserSchema    |-> [paths |-> UserPaths, virtuals |-> <<"id", "fullName">>,
                         options |-> [timestamps |-> TRUE]],
      PostSchema    |-> [paths |-> PostPaths, virtuals |-> <<"id">>,
                         options |-> [timestamps |-> TRUE]],
      ProfileSchema |-> [paths |-> ProfilePaths, virtuals |-> <<"id">>,
                         options |-> [timestamps |-> FALSE]],
      AddressSchema |-> [paths |-> AddressPaths, virtuals |-> <<>>,
                         options |-> [timestamps |-> FALSE]],
      CommentSchema |-> [paths |-> CommentPaths, virtuals |-> <<>>,
                         options |-> [timestamps |-> FALSE]],
      NodeSchema    |-> [paths |-> NodePaths, virtuals |-> <<"id">>,
                         options |-> [timestamps |-> FALSE]],
      ASchema       |-> [paths |-> APaths, options |-> [timestamps |-> FALSE]],
      BSchema       |-> [paths |-> BPaths, virtuals |-> <<"createdAt">>,
                         options |-> [timestamps |-> TRUE]],
      TreeSchema    |-> [paths |-> TreePaths, virtuals |-> <<"id", "depth">>],
      ShippingSchema |-> [paths |-> ShippingPaths, virtuals |-> <<>>,
                          options |-> [timestamps |-> FALSE]],
      OrderSchema   |-> [paths |-> OrderPaths, virtuals |-> <<"id">>,
                         options |-> [timestamps |-> TRUE]] ]

SchemaIds == DOMAIN SchemaHeap

----------------------------------------------------------------------------
(* extractCompletePathInfo and extractCompleteMongooseSchema                *)

\* variant of ItemSchemaType that reads the caster alone
ItemCasterOnly(schemaType) ==
    IF Has(schemaType, "caster") THEN <<schemaType.caster>> ELSE <<>>

\* schemaType.caster || schemaType.$embeddedSchemaType
ItemSchemaType(schemaType) ==
    IF Has(schemaType, "caster") THEN <<schemaType.caster>>
    ELSE IF Has(schemaType, "embeddedSchemaType") THEN <<schemaType.embeddedSchemaType>>
    ELSE <<>>

\* schemaType.schemaType || schemaType.$__schemaType
ValueSchemaType(schemaType) ==
    IF Has(schemaType, "schemaType") THEN <<schemaType.schemaType>>
    ELSE IF Has(schemaType, "schemaTypeInternal") THEN <<schemaType.schemaTypeInternal>>
    ELSE <<>>

\* variant of VisitedHas that takes any visited schema for the one asked about
VisitedHasAny(seen, schema) == seen # {}

\* visited.has(schema)
VisitedHas(seen, schema) == schema \in seen

\* variant of SkipPath that lets the revision counter through
SkipPathIdOnly(pathName, opts) == pathName = "_id" /\ ~opts.includeId

\* pathName === '_id' && !options.includeId, or pathName === '__v'
SkipPath(pathName, opts) ==
    \/ pathName = "_id" /\ ~opts.includeId
    \/ pathName = "__v"

RECURSIVE extractCompletePathInfo(_, _, _, _, _)
RECURSIVE NestedFields(_, _, _, _, _, _)
RECURSIVE KindInfo(_, _, _, _, _)
RECURSIVE NestedStep(_, _, _, _, _, _, _)

\* nestedFields[nestedPath] = <the entry's descriptor>, once its walk has returned
NestedStep(paths, i, depth, opts, nestedFields, nestedPath, r) ==
    CASE r.visited \subseteq SchemaIds ->
         NestedFields(paths, i + 1, depth, opts,
                      Put(nestedFields, nestedPath, r.info), r.visited)

\* the loop over Object.entries(schemaType.schema.paths), from entry i on
NestedFields(paths, i, depth, opts, nestedFields, seen) ==
    IF i > Len(paths) THEN [fields |-> nestedFields, visited |-> seen]
    ELSE LET nestedPath == paths[i][1]
             nestedType == paths[i][2]
         IN IF SkipPath(nestedPath, opts)
            THEN NestedFields(paths, i + 1, depth, opts, nestedFields, seen)
            ELSE LET r == extractCompletePathInfo(nestedType, nestedPath, depth + 1, opts, seen)
                 IN NestedStep(paths, i, depth, opts, nestedFields, nestedPath, r)

\* the switch (instance) of extractCompletePathInfo
KindInfo(schemaType, instance, depth, opts, seen) ==
    CASE instance = MONGOOSE_TYPES.STRING ->
           [info |-> StringInfo(schemaType), visited |-> seen]
      [] instance = MONGOOSE_TYPES.NUMBER ->
           [info |-> NumberInfo(schemaType), visited |-> seen]
      [] instance = MONGOOSE_TYPES.DATE ->
           [info |-> DateInfo(schemaType), visited |-> seen]
      [] instance = MONGOOSE_TYPES.BOOLEAN ->
           [info |-> [type |-> MONGOOSE_TYPES.BOOLEAN], visited |-> seen]
      [] instance = MONGOOSE_TYPES.OBJECT_ID ->
           [info |-> ObjectIdInfo(schemaType), visited |-> seen]
      [] instance = MONGOOSE_TYPES.DECIMAL128 ->
           [info |-> [type |-> MONGOOSE_TYPES.DECIMAL128], visited |-> seen]
      [] instance = MONGOOSE_TYPES.BUFFER ->
           [info |-> [type |-> MONGOOSE_TYPES.BUFFER], visited |-> seen]
      [] instance = MONGOOSE_TYPES.MIXED ->
           [info |-> [type |-> MONGOOSE_TYPES.MIXED], visited |-> seen]
      [] instance = MONGOOSE_TYPES.ARRAY ->
           LET item == ItemSchemaType(schemaType)
               i0 == [type |-> MONGOOSE_TYPES.ARRAY]
           IN IF item # <<>>
              THEN LET r == extractCompletePathInfo(item[1], "", depth + 1, opts, seen)
                       itemInfo == IF OptDefined(item[1], "ref") /\ item[1].options.ref # ""
                                   THEN Set(r.info, "ref", item[1].options.ref)
                                   ELSE r.info
                   IN [info |-> Set(i0, "items", itemInfo), visited |-> r.visited]
              ELSE [info |-> i0, visited |-> seen]
      [] instance \in {MONGOOSE_TYPES.EMBEDDED, MONGOOSE_TYPES.DOCUMENT} ->
           LET i0 == [type |-> "Object"]
           IN IF Has(schemaType, "schema")
              THEN IF VisitedHas(seen, schemaType.schema)
                   THEN [info |-> Set(i0, "circular", TRUE), visited |-> seen]
                   ELSE LET r == NestedFields(SchemaHeap[schemaType.schema].paths, 1, depth,
                                              opts, <<>>, seen \cup {schemaType.schema})
                        IN [info |-> Set(Set(i0, "properties", r.fields),
                                         "propertyCount", Len(r.fields)),
                            visited |-> r.visited]
              ELSE [info |-> i0, visited |-> seen]
      [] instance = MONGOOSE_TYPES.MAP ->
           LET valueType == ValueSchemaType(schemaType)
               i0 == [type |-> MONGOOSE_TYPES.MAP]
           IN IF valueType # <<>>
              THEN LET r == extractCompletePathInfo(valueType[1], "", depth + 1, opts, seen)
                   IN [info |-> Set(i0, "values", r.info), visited |-> r.visited]
              ELSE [info |-> i0, visited |-> seen]
      [] OTHER ->
           [info |-> DefaultInfo(instance), visited |-> seen]

extractCompletePathInfo(schemaType, pathName, depth, opts, seen) ==
    IF DepthExceeded(depth, opts)
    THEN [info |-> TruncationInfo, visited |-> seen]
    ELSE LET k == KindInfo(schemaType, InstanceOf(schemaType), depth, opts, seen)
         IN [info |-> CommonInfo(k.info, schemaType, opts), visited |-> k.visited]

\* the for-loop over Object.entries(schema.paths) of extractCompleteMongooseSchema
RECURSIVE RootFields(_, _, _, _, _)
RECURSIVE RootStep(_, _, _, _, _, _)

\* extracted[pathName] = <the entry's descriptor>, once its walk has returned
RootStep(paths, i, opts, extracted, pathName, r) ==
    CASE r.visited \subseteq SchemaIds ->
         RootFields(paths, i + 1, opts, Put(extracted, pathName, r.info), r.visited)
RootFields(paths, i, opts, extracted, seen) ==
    IF i > Len(paths) THEN [extracted |-> extracted, visited |-> seen]
    ELSE LET pathName == paths[i][1]
             schemaType == paths[i][2]
         IN IF SkipPath(pathName, opts)
            THEN RootFields(paths, i + 1, opts, extracted, seen)
            ELSE LET r == extractCompletePathInfo(schemaType, pathName, 0, opts, seen)
                 IN RootStep(paths, i, opts, extracted, pathName, r)

\* if (options.includeVirtuals && schema.virtuals) { ... }
RECURSIVE VirtualFields(_, _, _, _)
VirtualFields(virtuals, i, opts, extracted) ==
    IF i > Len(virtuals) THEN extracted
    ELSE IF virtuals[i] = "id" /\ ~opts.includeId
         THEN VirtualFields(virtuals, i + 1, opts, extracted)
         ELSE VirtualFields(virtuals, i + 1, opts,
                            Put(extracted, virtuals[i],
                                [type |-> MONGOOSE_TYPES.VIRTUAL, computed |-> TRUE]))

\* variant of TimestampFields that keeps a descriptor already present under the name
TimestampFieldsKeeping(schema, opts, extracted) ==
    IF /\ opts.includeTimestamps
       /\ Has(schema, "options")
       /\ Has(schema.options, "timestamps")
       /\ schema.options.timestamps
    THEN LET withCreated == IF HasKey(extracted, "createdAt") THEN extracted
                            ELSE Put(extracted, "createdAt",
                                     [type |-> MONGOOSE_TYPES.DATE, auto |-> TRUE])
         IN IF HasKey(withCreated, "updatedAt") THEN withCreated
            ELSE Put(withCreated, "updatedAt", [type |-> MONGOOSE_TYPES.DATE, auto |-> TRUE])
    ELSE extracted

\* if (options.includeTimestamps && schema.options?.timestamps) { ... }
TimestampFields(schema, opts, extracted) ==
    IF /\ opts.includeTimestamps
       /\ Has(schema, "options")
       /\ Has(schema.options, "timestamps")
       /\ schema.options.timestamps
    THEN Put(Put(extracted, "createdAt", [type |-> MONGOOSE_TYPES.DATE, auto |-> TRUE]),
             "updatedAt", [type |-> MONGOOSE_TYPES.DATE, auto |-> TRUE])
    ELSE extracted

\* { type: 'Circular', description: 'Circular reference detected' }
CircularRoot ==
    << <<"type", JsString("Circular")>>,
       <<"description", JsString("Circular reference detected")>> >>

extractCompleteMongooseSchema(model, opts, seen) ==
    IF VisitedHas(seen, model.schema)
    THEN [extracted |-> CircularRoot, visited |-> seen]
    ELSE LET schema == SchemaHeap[model.schema]
             r == RootFields(schema.paths, 1, opts, <<>>, seen \cup {model.schema})
             withVirtuals == IF opts.includeVirtuals /\ Has(schema, "virtuals")
                             THEN VirtualFields(schema.virtuals, 1, opts, r.extracted)
                             ELSE r.extracted
         IN [extracted |-> TimestampFields(schema, opts, withVirtuals),
             visited |-> r.visited]

----------------------------------------------------------------------------
(* Format Renderers: src/src/lib/formatter.ts                               *)

\* Array.prototype.join
RECURSIVE Join(_, _)
Join(strs, sep) ==
    IF Len(strs) = 0 THEN ""
    ELSE IF Len(strs) = 1 THEN strs[1]
    ELSE strs[1] \o sep \o Join(Tail(strs), sep)

\* String(v), as used by template literals and join, of a tagged value
ToStr(v) ==
    IF Has(v, "str") THEN v.str
    ELSE IF Has(v, "num") THEN ToString(v.num)
    ELSE IF Has(v, "bool") THEN (IF v.bool THEN "true" ELSE "false")
    ELSE IF Has(v, "null") THEN "null"
    ELSE "[object Object]"

\* JSON.stringify of a tagged value
JsonStringify(v) ==
    IF Has(v, "str") THEN "\"" \o v.str \o "\"" ELSE ToStr(v)

\* `${field.type}`
TypeLabel(field) == IF Has(field, "type") THEN field.type ELSE "undefined"

\* field.k is truthy, for a flag k that holds true when set
IsTrue(field, k) == Has(field, k) /\ field[k] = TRUE

\* field.ref is truthy
HasRef(field) == Has(field, "ref") /\ field.ref # ""

\* field.trim is truthy: also for a plain string, whose trim is String.prototype.trim
TrimTruthy(field) == IsTrue(field, "trim") \/ Has(field, "jsString")

\* fieldName.includes('.') and fieldName.split('.'), for the dotted names in use
DottedNames == {"address.city", "address.geo.lat"}

IncludesDot(fieldName) == fieldName \in DottedNames

SplitDot(fieldName) ==
    CASE fieldName = "address.city" -> <<"address", "city">>
      [] fieldName = "address.geo.lat" -> <<"address", "geo", "lat">>
      [] OTHER -> <<fieldName>>

\* String(pattern).replace(/\\(.)/g, '$1') on the characters of a pattern
RECURSIVE Unescape(_)
Unescape(chars) ==
    IF Len(chars) = 0 THEN <<>>
    ELSE IF chars[1] = "\\" /\ Len(chars) >= 2
         THEN <<chars[2]>> \o Unescape(SubSeq(chars, 3, Len(chars)))
         ELSE <<chars[1]>> \o Unescape(Tail(chars))

\* variant of CompactTypeStr that ignores the reference of a scalar field
CompactTypeNoRef(field) ==
    IF Has(field, "type") /\ field.type = MONGOOSE_TYPES.ARRAY /\ Has(field, "items")
    THEN "Array of " \o (IF HasRef(field.items)
                         THEN "ObjectId, ref: " \o field.items.ref
                         ELSE TypeLabel(field.items))
    ELSE TypeLabel(field)

\* formatCompact: the type label of a top-level field
CompactTypeStr(field) ==
    IF Has(field, "type") /\ field.type = MONGOOSE_TYPES.ARRAY /\ Has(field, "items")
    THEN "Array of " \o (IF HasRef(field.items)
                         THEN "ObjectId, ref: " \o field.items.ref
                         ELSE TypeLabel(field.items))
    ELSE IF HasRef(field) THEN "ObjectId, ref: " \o field.ref
    ELSE TypeLabel(field)

\* variant of LengthTokens that never combines the two bounds into one token
LengthTokensSeparate(field) ==
    (IF Has(field, "minLength")
     THEN <<"min " \o ToString(field.minLength) \o " chars">> ELSE <<>>)
    \o (IF Has(field, "maxLength")
        THEN <<"max " \o ToString(field.maxLength) \o " chars">> ELSE <<>>)

\* formatCompact: length constraints
LengthTokens(field) ==
    IF Has(field, "minLength") /\ Has(field, "maxLength")
    THEN <<ToString(field.minLength) \o "-" \o ToString(field.maxLength) \o " chars">>
    ELSE IF Has(field, "minLength")
    THEN <<"min " \o ToString(field.minLength) \o " chars">>
    ELSE IF Has(field, "maxLength")
    THEN <<"max " \o ToString(field.maxLength) \o " chars">>
    ELSE <<>>

\* formatCompact: numeric constraints
NumericTokens(field) ==
    IF Has(field, "min") /\ Has(field, "max")
    THEN <<"range: " \o ToString(field.min) \o "-" \o ToString(field.max)>>
    ELSE IF Has(field, "min") THEN <<"min: " \o ToString(field.min)>>
    ELSE IF Has(field, "max") THEN <<"max: " \o ToString(field.max)>>
    ELSE <<>>

\* `enum: [${field.enum.join(', ')}]`
EnumToken(field) ==
    "enum: [" \o Join([i \in 1..Len(field.enum) |-> ToStr(field.enum[i])], ", ") \o "]"

\* formatCompact: const constraints, in the order the code pushes them
CompactConstraints(field) ==
    (IF IsTrue(field, "required") THEN <<"required">> ELSE <<>>)
    \o (IF IsTrue(field, "unique") THEN <<"unique">> ELSE <<>>)
    \o (IF Has(field, "indexed") /\ Truthy(field.indexed) THEN <<"indexed">> ELSE <<>>)
    \o (IF IsTrue(field, "lowercase") THEN <<"lowercase">> ELSE <<>>)
    \o (IF IsTrue(field, "uppercase") THEN <<"uppercase">> ELSE <<>>)
    \o (IF TrimTruthy(field) THEN <<"trim">> ELSE <<>>)
    \o LengthTokens(field)
    \o NumericTokens(field)
    \o (IF Has(field, "pattern") /\ Len(field.pattern) > 0
        THEN <<"pattern: " \o Join(Unescape(field.pattern), "")>> ELSE <<>>)
    \o (IF Has(field, "enum") THEN <<EnumToken(field)>> ELSE <<>>)
    \o (IF IsTrue(field, "sparse") THEN <<"sparse">> ELSE <<>>)
    \o (IF IsTrue(field, "immutable") THEN <<"immutable">> ELSE <<>>)
    \o (IF Has(field, "select") /\ field.select = FALSE THEN <<"not selected">> ELSE <<>>)
    \o (IF IsTrue(field, "auto") THEN <<"auto-generated">> ELSE <<>>)

\* formatCompact: the default clause of a top-level field
CompactDefault(field) ==
    IF Has(field, "defaultValue")
    THEN ", default: " \o (IF Has(field.defaultValue, "str")
                           THEN field.defaultValue.str
                           ELSE JsonStringify(field.defaultValue))
    ELSE ""

\* `, ${constraints.join(', ')}` when there are constraints
ConstraintClause(constraints) ==
    IF Len(constraints) > 0 THEN ", " \o Join(constraints, ", ") ELSE ""

\* `, default: ${JSON.stringify(x.defaultValue)}` of nested and grouped fields
JsonDefault(field) ==
    IF Has(field, "defaultValue")
    THEN ", default: " \o JsonStringify(field.defaultValue)
    ELSE ""

\* formatCompact: the line of one top-level field
CompactFieldLine(fieldName, field) ==
    "- " \o fieldName \o " (" \o CompactTypeStr(field)
         \o ConstraintClause(CompactConstraints(field))
         \o CompactDefault(field) \o ")"

\* formatCompact: one line of a nested object
CompactNestedLine(nestedName, nested) ==
    LET nestedConstraints ==
            (IF IsTrue(nested, "required") THEN <<"required">> ELSE <<>>)
            \o (IF Has(nested, "maxLength") /\ nested.maxLength # 0
                THEN <<"max " \o ToString(nested.maxLength) \o " chars">> ELSE <<>>)
            \o (IF Has(nested, "minLength") /\ nested.minLength # 0
                THEN <<"min " \o ToString(nested.minLength) \o " chars">> ELSE <<>>)
            \o (IF Has(nested, "enum") THEN <<EnumToken(nested)>> ELSE <<>>)
    IN "  - " \o nestedName \o " (" \o TypeLabel(nested)
            \o ConstraintClause(nestedConstraints) \o JsonDefault(nested) \o ")"

\* formatCompact: one line of an "Array contains:" block
CompactArrayLine(nestedName, nested) ==
    LET nestedConstraints ==
            (IF IsTrue(nested, "required") THEN <<"required">> ELSE <<>>)
            \o (IF HasRef(nested) THEN <<"ref: " \o nested.ref>> ELSE <<>>)
    IN "    - " \o nestedName \o " (" \o TypeLabel(nested)
            \o ConstraintClause(nestedConstraints) \o ")"

\* formatCompact: one child line of a nested field group
CompactChildLine(childName, field) ==
    LET constraints ==
            (IF IsTrue(field, "required") THEN <<"required">> ELSE <<>>)
            \o (IF IsTrue(field, "unique") THEN <<"unique">> ELSE <<>>)
            \o (IF HasRef(field) THEN <<"ref: " \o field.ref>> ELSE <<>>)
            \o (IF Has(field, "enum") THEN <<EnumToken(field)>> ELSE <<>>)
    IN "  - " \o childName \o " (" \o TypeLabel(field)
            \o ConstraintClause(constraints) \o JsonDefault(field) \o ")"

\* formatCompact: all lines of one regular field
CompactFieldLines(fieldName, field) ==
    <<CompactFieldLine(fieldName, field)>>
    \o (IF /\ Has(field, "type") /\ field.type = "Object"
           /\ Has(field, "properties") /\ ~IsTrue(field, "circular")
        THEN [i \in 1..Len(field.properties) |->
                 CompactNestedLine(field.properties[i][1], field.properties[i][2])]
        ELSE <<>>)
    \o (IF /\ Has(field, "type") /\ field.type = MONGOOSE_TYPES.ARRAY
           /\ Has(field, "items") /\ Has(field.items, "type")
           /\ field.items.type = "Object" /\ Has(field.items, "properties")
        THEN <<"  Array contains:">>
             \o [i \in 1..Len(field.items.properties) |->
                    CompactArrayLine(field.items.properties[i][1],
                                     field.items.properties[i][2])]
        ELSE <<>>)

\* flattening of a sequence of sequences
RECURSIVE Flatten(_)
Flatten(seqs) == IF Len(seqs) = 0 THEN <<>> ELSE seqs[1] \o Flatten(Tail(seqs))

\* formatCompact: regularFields, the fields whose name holds no '.'
RegularFields(fields) == SelectSeq(fields, LAMBDA e : ~IncludesDot(e[1]))

\* formatCompact: nestedGroups, parent -> [{name, info}] in order of first appearance
RECURSIVE NestedGroups(_, _, _)
NestedGroups(fields, i, groups) ==
    IF i > Len(fields) THEN groups
    ELSE IF IncludesDot(fields[i][1])
    THEN LET parts == SplitDot(fields[i][1])
             parentField == parts[1]
             child == [name |-> Join(Tail(parts), "."), info |-> fields[i][2]]
             old == IF HasKey(groups, parentField) THEN Get(groups, parentField) ELSE <<>>
         IN NestedGroups(fields, i + 1, Put(groups, parentField, Append(old, child)))
    ELSE NestedGroups(fields, i + 1, groups)

\* formatCompact: the lines of one nested field group
CompactGroupLines(parentField, children) ==
    <<"- " \o parentField \o " (Object)">>
    \o [i \in 1..Len(children) |-> CompactChildLine(children[i].name, children[i].info)]

\* formatCompact: the lines pushed for one model
CompactModelLines(modelName, fields) ==
    LET regular == RegularFields(fields)
        groups == NestedGroups(fields, 1, <<>>)
    IN <<"**" \o modelName \o "**">>
       \o Flatten([i \in 1..Len(regular) |-> CompactFieldLines(regular[i][1], regular[i][2])])
       \o Flatten([i \in 1..Len(groups) |-> CompactGroupLines(groups[i][1], groups[i][2])])
       \o <<"">>

\* lines.join('\n').trim(): the trim removes the line break left by the last empty line
JoinTrim(lines) ==
    IF Len(lines) = 0 THEN "" ELSE Join(SubSeq(lines, 1, Len(lines) - 1), "\n")

formatCompact(mapping) ==
    JoinTrim(Flatten([i \in 1..Len(mapping) |->
                         CompactModelLines(mapping[i][1], mapping[i][2])]))

formatJSON(mapping) == mapping

TYPESCRIPT_TYPE_MAP ==
    [String |-> "string", Number |-> "number", Boolean |-> "boolean",
     Date |-> "Date", ObjectId |-> "string", Decimal128 |-> "Decimal",
     Buffer |-> "Buffer", Mixed |-> "any", Virtual |-> "any"]

GRAPHQL_TYPE_MAP ==
    [String |-> "String", Number |-> "Float", Boolean |-> "Boolean",
     Date |-> "DateTime", ObjectId |-> "ID", Decimal128 |-> "Decimal",
     Buffer |-> "String", Mixed |-> "JSON", Virtual |-> "String"]

RECURSIVE mapToTypeScriptType(_)
mapToTypeScriptType(fieldInfo) ==
    LET t0 == IF Has(fieldInfo, "type") /\ fieldInfo.type \in DOMAIN TYPESCRIPT_TYPE_MAP
              THEN TYPESCRIPT_TYPE_MAP[fieldInfo.type] ELSE "any"
        t1 == IF Has(fieldInfo, "enum")
              THEN Join([i \in 1..Len(fieldInfo.enum) |->
                            "'" \o ToStr(fieldInfo.enum[i]) \o "'"], " | ")
              ELSE t0
        t2 == IF Has(fieldInfo, "type") /\ fieldInfo.type = MONGOOSE_TYPES.ARRAY
              THEN (IF Has(fieldInfo, "items")
                    THEN mapToTypeScriptType(fieldInfo.items) ELSE "any") \o "[]"
              ELSE t1
        t3 == IF Has(fieldInfo, "type") /\ fieldInfo.type = "Object"
                 /\ Has(fieldInfo, "properties")
              THEN IF IsTrue(fieldInfo, "circular")
                   THEN "any /* circular reference */"
                   ELSE "{ " \o Join([i \in 1..Len(fieldInfo.properties) |->
                                        fieldInfo.properties[i][1]
                                        \o (IF IsTrue(fieldInfo.properties[i][2], "required")
                                            THEN "" ELSE "?")
                                        \o ": "
                                        \o mapToTypeScriptType(fieldInfo.properties[i][2])],
                                     "; ") \o " }"
              ELSE t2
    IN IF HasRef(fieldInfo) THEN "string | I" \o fieldInfo.ref ELSE t3

RECURSIVE mapToGraphQLType(_)
mapToGraphQLType(fieldInfo) ==
    LET g0 == IF Has(fieldInfo, "type") /\ fieldInfo.type \in DOMAIN GRAPHQL_TYPE_MAP
              THEN GRAPHQL_TYPE_MAP[fieldInfo.type] ELSE "JSON"
        g1 == IF Has(fieldInfo, "type") /\ fieldInfo.type = MONGOOSE_TYPES.ARRAY
              THEN "[" \o (IF Has(fieldInfo, "items")
                           THEN mapToGraphQLType(fieldInfo.items) ELSE "JSON") \o "]"
              ELSE g0
        g2 == IF HasRef(fieldInfo) THEN fieldInfo.ref ELSE g1
    IN IF IsTrue(fieldInfo, "circular") THEN "JSON" ELSE g2

\* formatTypeScript: the member line of one field
TypeScriptFieldLine(fieldName, fieldInfo) ==
    "  " \o fieldName \o (IF IsTrue(fieldInfo, "required") THEN "" ELSE "?")
         \o ": " \o mapToTypeScriptType(fieldInfo) \o ";\n"

formatTypeScript(mapping) ==
    Join([m \in 1..Len(mapping) |->
             "export interface I" \o mapping[m][1] \o " {\n"
             \o Join([i \in 1..Len(mapping[m][2]) |->
                         TypeScriptFieldLine(mapping[m][2][i][1], mapping[m][2][i][2])], "")
             \o "}\n\n"], "")

\* formatGraphQL: the line of one field
GraphQLFieldLine(fieldName, fieldInfo) ==
    "  " \o fieldName \o ": " \o mapToGraphQLType(fieldInfo)
         \o (IF IsTrue(fieldInfo, "required") THEN "!" ELSE "") \o "\n"

formatGraphQL(mapping) ==
    Join([m \in 1..Len(mapping) |->
             "type " \o mapping[m][1] \o " {\n"
             \o Join([i \in 1..Len(mapping[m][2]) |->
                         GraphQLFieldLine(mapping[m][2][i][1], mapping[m][2][i][2])], "")
             \o "}\n\n"], "")

\* '-'.repeat(40)
RECURSIVE Repeat(_, _)
Repeat(str, n) == IF n = 0 THEN "" ELSE str \o Repeat(str, n - 1)

\* width of the rule under a model heading of formatHuman
HumanRuleWidth == 40

\* the clipboard sign that opens a model heading of formatHuman
ClipboardSign == "<clipboard>"

\* the warning sign of the circular line of formatHuman
WarningSign == "<warning>"

\* formatHuman: `${x || alt}` of a number
NumOr(field, k, alt) ==
    IF Has(field, k) /\ field[k] # 0 THEN ToString(field[k]) ELSE alt

\* formatHuman: the block of one field
HumanFieldBlock(fieldName, fieldInfo) ==
    "  " \o fieldName \o ":\n"
    \o "    Type: " \o TypeLabel(fieldInfo) \o "\n"
    \o (IF IsTrue(fieldInfo, "required") THEN "    Required: Yes\n" ELSE "")
    \o (IF IsTrue(fieldInfo, "unique") THEN "    Unique: Yes\n" ELSE "")
    \o (IF HasRef(fieldInfo) THEN "    References: " \o fieldInfo.ref \o "\n" ELSE "")
    \o (IF Has(fieldInfo, "enum")
        THEN "    Allowed Values: "
             \o Join([i \in 1..Len(fieldInfo.enum) |-> ToStr(fieldInfo.enum[i])], ", ") \o "\n"
        ELSE "")
    \o (IF Has(fieldInfo, "min") \/ Has(fieldInfo, "max")
        THEN "    Range: " \o NumOr(fieldInfo, "min", "N/A") \o " - "
             \o NumOr(fieldInfo, "max", "N/A") \o "\n"
        ELSE "")
    \o (IF (Has(fieldInfo, "minLength") /\ fieldInfo.minLength # 0)
           \/ (Has(fieldInfo, "maxLength") /\ fieldInfo.maxLength # 0)
        THEN "    Length: " \o NumOr(fieldInfo, "minLength", "0") \o " - "
             \o NumOr(fieldInfo, "maxLength", "unlimited") \o "\n"
        ELSE "")
    \o (IF Has(fieldInfo, "defaultValue")
        THEN "    Default: " \o JsonStringify(fieldInfo.defaultValue) \o "\n" ELSE "")
    \o (IF Has(fieldInfo, "properties")
        THEN "    Nested Fields: " \o Join(Keys(fieldInfo.properties), ", ") \o "\n" ELSE "")
    \o (IF IsTrue(fieldInfo, "circular")
        THEN "    " \o WarningSign \o "  Circular Reference Detected\n" ELSE "")
    \o "\n"

formatHuman(mapping) ==
    Join([m \in 1..Len(mapping) |->
             ClipboardSign \o " " \o mapping[m][1] \o " Model\n"
             \o Repeat("-", HumanRuleWidth) \o "\n"
             \o Join([i \in 1..Len(mapping[m][2]) |->
                         HumanFieldBlock(mapping[m][2][i][1], mapping[m][2][i][2])], "")
             \o "\n"], "")

----------------------------------------------------------------------------
(* extractSchemas: src/src/index.ts (and the legacy index.js)               *)

\* !input
Falsy(inp) ==
    \/ inp.typeof = "undefined"
    \/ Has(inp, "null")
    \/ Has(inp, "num") /\ inp.num = 0
    \/ Has(inp, "str") /\ inp.str = ""

\* inp.forEach(model => { if (model.modelName) models[model.modelName] = model })
RECURSIVE CollectModels(_, _, _)
CollectModels(arr, i, acc) ==
    IF i > Len(arr) THEN acc
    ELSE CollectModels(arr, i + 1,
                       IF Has(arr[i], "modelName") /\ arr[i].modelName # ""
                       THEN Put(acc, arr[i].modelName, arr[i])
                       ELSE acc)

\* the input dispatch of extractSchemas: the models found, or the error thrown
ResolveModels(inp) ==
    IF Falsy(inp)
    THEN [error |-> "Input is required - provide mongoose instance, model, or models object"]
    ELSE IF Has(inp, "models") THEN [models |-> inp.models]
    ELSE IF Has(inp, "modelName") /\ Has(inp, "schema")
    THEN [models |-> << <<inp.modelName, [modelName |-> inp.modelName, schema |-> inp.schema]>> >>]
    ELSE IF Has(inp, "array") THEN [models |-> CollectModels(inp.array, 1, <<>>)]
    ELSE IF inp.typeof = "object" THEN [models |-> inp.entries]
    ELSE [error |-> "Invalid input type - expected mongoose instance, model, or models object"]

\* the features extractSchemas includes when the caller names none
DefaultInclude == {"defaults", "validators", "timestamps", "virtuals", "indexes"}

\* const opts = { format: 'json', include: [...], exclude: [], depth: 10, ...options }
MergedOptions(o) ==
    [ format  |-> IF Has(o, "format") THEN o.format ELSE [str |-> "json"],
      include |-> IF Has(o, "include") THEN o.include ELSE DefaultInclude,
      exclude |-> IF Has(o, "exclude") THEN o.exclude ELSE {},
      depth   |-> IF Has(o, "depth") THEN o.depth ELSE DefaultDepth ]

\* variant of FeatureOn that reads the two lists the way includeId does
FeatureOnEither(opts, f) == f \in opts.include \/ f \notin opts.exclude

\* opts.include.includes(f) && !opts.exclude.includes(f)
FeatureOn(opts, f) == f \in opts.include /\ f \notin opts.exclude

\* variant of IdOn that reads the two lists the way the other features do
IdOnBoth(opts) == "id" \in opts.include /\ "id" \notin opts.exclude

\* opts.include.includes('id') || !opts.exclude.includes('id')
IdOn(opts) == "id" \in opts.include \/ "id" \notin opts.exclude

\* const includeFlags = { ... }
IncludeFlagsOf(opts) ==
    [ includeId         |-> IdOn(opts),
      includeTimestamps |-> FeatureOn(opts, "timestamps"),
      includeVirtuals   |-> FeatureOn(opts, "virtuals"),
      includeIndexes    |-> FeatureOn(opts, "indexes"),
      includeValidators |-> FeatureOn(opts, "validators"),
      includeDefaults   |-> FeatureOn(opts, "defaults"),
      depth             |-> opts.depth ]

\* variant of FreshVisited that keeps the set of the previous call
StaleVisited == visited

\* const visited = new WeakSet()
FreshVisited == {}

\* !opts.format || opts.format === 'raw'
IsRawFormat(format) == ~Truthy(format) \/ format = [str |-> "raw"]

\* String(format).toLowerCase(), for the format names in use
LowerCaseNames ==
    << <<"JSON", "json">>, <<"Compact", "compact">>, <<"LLM-Compact", "llm-compact">>,
       <<"TypeScript", "typescript">>, <<"GraphQL", "graphql">>, <<"Human", "human">>,
       <<"RAW", "raw">>, <<"XML", "xml">> >>

ToLowerCase(str) == IF HasKey(LowerCaseNames, str) THEN Get(LowerCaseNames, str) ELSE str

\* own keys of the formatters table of formatSchemas in src/index.ts
FormattersTable == {"json", "compact", "llm-compact", "human", "typescript", "graphql"}

\* own keys of the formatters table of formatSchemas in the legacy index.js
LegacyFormattersTable == {"json", "compact", "human", "typescript", "graphql"}

\* formatters[key] of an object literal: an own key, else what Object.prototype
\* holds under that key, else undefined
FormatterLookup(table, key) ==
    IF key \in table THEN key
    ELSE IF key = "constructor" THEN "Object"
    ELSE IF key = "__proto__" THEN "Object.prototype"
    ELSE "undefined"

\* formatter(schemas)
CallFormatter(formatter, mapping) ==
    CASE formatter = "json" -> [mapping |-> formatJSON(mapping)]
      [] formatter \in {"compact", "llm-compact"} -> [text |-> formatCompact(mapping)]
      [] formatter = "human" -> [text |-> formatHuman(mapping)]
      [] formatter = "typescript" -> [text |-> formatTypeScript(mapping)]
      [] formatter = "graphql" -> [text |-> formatGraphQL(mapping)]
      [] formatter = "Object" -> [mapping |-> mapping]
      [] OTHER -> [error |-> "TypeError: formatter is not a function"]

\* const formatter = formatters[String(format).toLowerCase()] || formatters.json
PickFormatter(table, format) ==
    LET found == FormatterLookup(table, ToLowerCase(format.str))
    IN IF found = "undefined" THEN "json" ELSE found

\* formatSchemas of src/index.ts
formatSchemas(mapping, format) ==
    CallFormatter(PickFormatter(FormattersTable, format), mapping)

\* formatSchemas of the legacy index.js
formatSchemasLegacy(mapping, format) ==
    CallFormatter(PickFormatter(LegacyFormattersTable, format), mapping)

NoResult == [none |-> TRUE]

\* extractSchemas, from its entry to the start of the loop over the models
Resolve ==
    /\ pc = "start"
    /\ LET r == ResolveModels(input)
           opts == MergedOptions(options)
       IN IF Has(r, "error")
          THEN /\ pc' = "thrown"
               /\ result' = r
               /\ UNCHANGED <<models, includeFlags, optsFormat, idx, schemas, visited>>
          ELSE /\ pc' = "loop"
               /\ models' = r.models
               /\ includeFlags' = IncludeFlagsOf(opts)
               /\ optsFormat' = opts.format
               /\ idx' = 1
               /\ schemas' = <<>>
               /\ visited' = FreshVisited
               /\ UNCHANGED result
    /\ UNCHANGED <<impl, input, options, calls, prev>>

\* variant of SkipModel that raises on a model without a schema
ThrowOnMissingSchema ==
    /\ pc = "loop"
    /\ idx <= Len(models)
    /\ ~Has(models[idx][2], "schema")
    /\ pc' = "thrown"
    /\ result' = [error |-> "Model has no schema"]
    /\ UNCHANGED <<impl, input, options, models, includeFlags, optsFormat, idx,
                   schemas, visited, calls, prev>>

\* if (!model.schema) continue
SkipModel ==
    /\ pc = "loop"
    /\ idx <= Len(models)
    /\ ~Has(models[idx][2], "schema")
    /\ idx' = idx + 1
    /\ UNCHANGED <<impl, input, options, pc, models, includeFlags, optsFormat,
                   schemas, visited, result, calls, prev>>

\* schemas[modelName] = extractCompleteMongooseSchema(model, includeFlags, visited)
ExtractModel ==
    /\ pc = "loop"
    /\ idx <= Len(models)
    /\ Has(models[idx][2], "schema")
    /\ LET r == extractCompleteMongooseSchema(models[idx][2], includeFlags, visited)
       IN /\ schemas' = Put(schemas, models[idx][1], r.extracted)
          /\ visited' = r.visited
    /\ idx' = idx + 1
    /\ UNCHANGED <<impl, input, options, pc, models, includeFlags, optsFormat,
                   result, calls, prev>>

\* if (!opts.format || opts.format === 'raw') return schemas
ReturnRaw ==
    /\ pc = "loop"
    /\ idx > Len(models)
    /\ IsRawFormat(optsFormat)
    /\ result' = [mapping |-> schemas]
    /\ pc' = "returned"
    /\ UNCHANGED <<impl, input, options, models, includeFlags, optsFormat, idx,
                   schemas, visited, calls, prev>>

\* variant of Format whose renderer empties the mapping it was given
FormatDraining ==
    /\ pc = "loop"
    /\ idx > Len(models)
    /\ ~IsRawFormat(optsFormat)
    /\ LET r == IF impl = "ts" THEN formatSchemas(schemas, optsFormat)
                ELSE formatSchemasLegacy(schemas, optsFormat)
       IN /\ result' = r
          /\ pc' = IF Has(r, "error") THEN "thrown" ELSE "returned"
    /\ schemas' = <<>>
    /\ UNCHANGED <<impl, input, options, models, includeFlags, optsFormat, idx,
                   visited, calls, prev>>

\* return formatSchemas(schemas, opts.format)
Format ==
    /\ pc = "loop"
    /\ idx > Len(models)
    /\ ~IsRawFormat(optsFormat)
    /\ LET r == IF impl = "ts" THEN formatSchemas(schemas, optsFormat)
                ELSE formatSchemasLegacy(schemas, optsFormat)
       IN /\ result' = r
          /\ pc' = IF Has(r, "error") THEN "thrown" ELSE "returned"
    /\ UNCHANGED <<impl, input, options, models, includeFlags, optsFormat, idx,
                   schemas, visited, calls, prev>>

\* number of extractSchemas calls made on the same input with the same options
MaxCalls == 2

\* the caller calls extractSchemas again, with the same arguments
CallAgain ==
    /\ pc \in {"returned", "thrown"}
    /\ calls < MaxCalls
    /\ calls' = calls + 1
    /\ prev' = result
    /\ result' = NoResult
    /\ pc' = "start"
    /\ UNCHANGED <<impl, input, options, models, includeFlags, optsFormat, idx,
                   schemas, visited>>

Next == Resolve \/ SkipModel \/ ExtractModel \/ ReturnRaw \/ Format \/ CallAgain

----------------------------------------------------------------------------
(* The calls made: inputs and options                                       *)

\* longest registry handed to extractSchemas
MaxModels == 2

\* largest options.depth a caller passes
MaxDepthOpt == 2

UserModel == [modelName |-> "User", schema |-> "UserSchema"]
PostModel == [modelName |-> "Post", schema |-> "PostSchema"]
TreeModel == [modelName |-> "Tree", schema |-> "TreeSchema"]
NodeModel == [modelName |-> "Node", schema |-> "NodeSchema"]
AModel == [modelName |-> "A", schema |-> "ASchema"]
BModel == [modelName |-> "B", schema |-> "BSchema"]
\* a registered model that has no schema
GhostModel == [modelName |-> "Ghost"]

ModelPool == {UserModel, PostModel, TreeModel, NodeModel, AModel, BModel, GhostModel}

\* the sequences of at most MaxModels distinct models
Registries ==
    UNION { { r \in [1..n -> ModelPool] : \A i, j \in 1..n : i # j => r[i] # r[j] }
            : n \in 0..MaxModels }

AsEntries(registry) == [i \in 1..Len(registry) |-> <<registry[i].modelName, registry[i]>>]

\* a mongoose instance: an object with a `models` registry
Mongoose(registry) == [typeof |-> "object", models |-> AsEntries(registry)]

\* a plain object of models
ModelsObject(registry) == [typeof |-> "object", entries |-> AsEntries(registry)]

\* an array of models (or of anything else)
ModelsArray(elements) == [typeof |-> "object", array |-> elements]

\* a model class passed alone
SingleModel(model) == Spread(model, [typeof |-> "function"])

Features == {"id", "defaults", "validators", "timestamps", "virtuals", "indexes"}

RawFormat == [format |-> [null |-> TRUE]]

DepthChoices == {Empty} \cup {[depth |-> d] : d \in 0..MaxDepthOpt}

\* every registry, at every depth option, with the default features and with none
WalkCalls ==
    { [impl |-> "ts", input |-> Mongoose(r), options |-> Spread(Spread(d, f), RawFormat)]
      : r \in Registries, d \in DepthChoices, f \in {Empty, [include |-> {}]} }

IncludeChoices ==
    {Empty, [include |-> {}], [include |-> Features]}
    \cup {[include |-> {f}] : f \in Features}

ExcludeChoices ==
    {Empty, [exclude |-> Features]} \cup {[exclude |-> {f}] : f \in Features}

\* two registries under every include/exclude choice
FeatureCalls ==
    { [impl |-> "ts", input |-> Mongoose(r), options |-> Spread(Spread(i, e), RawFormat)]
      : r \in {<<UserModel, PostModel>>, <<TreeModel, BModel>>},
        i \in IncludeChoices, e \in ExcludeChoices }

FormatNames ==
    {"", "raw", "RAW", "json", "JSON", "compact", "llm-compact", "LLM-Compact",
     "human", "typescript", "TypeScript", "graphql", "xml", "constructor", "__proto__"}

FormatChoices ==
    {Empty, RawFormat} \cup {[format |-> [str |-> n]] : n \in FormatNames}

\* three registries under every format name, through both entry points
FormatCalls ==
    { [impl |-> e, input |-> Mongoose(r), options |-> f]
      : e \in {"ts", "js"},
        r \in {<<>>, <<UserModel, PostModel>>, <<AModel, BModel, GhostModel>>},
        f \in FormatChoices }

\* something that is not a model: it has no modelName
NotAModel == [other |-> TRUE]

InputShapes ==
    { [typeof |-> "undefined"],
      [typeof |-> "object", null |-> TRUE],
      [typeof |-> "number", num |-> 0],
      [typeof |-> "number", num |-> 5],
      [typeof |-> "string", str |-> "User"],
      SingleModel(UserModel),
      SingleModel(GhostModel),
      ModelsObject(<<PostModel, GhostModel>>),
      ModelsObject(<<>>),
      [typeof |-> "object", entries |-> << <<"foo", [num |-> 1]>> >>],
      ModelsArray(<<>>),
      ModelsArray(<<NotAModel>>),
      ModelsArray(<<GhostModel>>),
      ModelsArray(<<UserModel, NotAModel, GhostModel, PostModel>>),
      ModelsArray(<<NodeModel, GhostModel, [modelName |-> "Node", schema |-> "TreeSchema"]>>) }

\* every input shape, through both entry points
InputCalls ==
    { [impl |-> e, input |-> i, options |-> f]
      : e \in {"ts", "js"}, i \in InputShapes, f \in {Empty, RawFormat} }

Calls == WalkCalls \cup FeatureCalls \cup FormatCalls \cup InputCalls

Init ==
    /\ \E c \in Calls :
          /\ impl = c.impl
          /\ input = c.input
          /\ options = c.options
    /\ pc = "start"
    /\ models = <<>>
    /\ includeFlags = Empty
    /\ optsFormat = [null |-> TRUE]
    /\ idx = 1
    /\ schemas = <<>>
    /\ visited = {}
    /\ result = NoResult
    /\ calls = 1
    /\ prev = NoResult

Spec == Init /\ [][Next]_vars

----------------------------------------------------------------------------
(* One schema path walked and rendered: extractCompletePathInfo on a        *)
(* SchemaType drawn with a set of constraint options, then the renderers    *)
(* on the one-model mapping that holds its descriptor.                      *)

\* most constraint options set together on a drawn String or Number path
MaxFlags == 4

StringFlags ==
    {"required", "unique", "index", "lowercase", "uppercase", "trim", "minlength",
     "maxlength", "match", "enum", "sparse", "immutable", "select", "default"}

NumberFlags ==
    {"required", "unique", "index", "min", "max", "enum", "sparse", "immutable",
     "select", "default"}

RefFlags == {"required", "unique", "index", "sparse", "immutable", "select", "default"}

\* the value a constraint option holds on a drawn path of the given kind
FlagValue(kind, flag) ==
    CASE flag = "index" -> [bool |-> TRUE]
      [] flag = "minlength" -> 3
      [] flag = "maxlength" -> 30
      [] flag = "min" -> 13
      [] flag = "max" -> 120
      [] flag = "match" -> [regex |-> <<"^", "\\", "d", "+", "$">>]
      [] flag = "enum" -> <<[num |-> 13], [num |-> 120]>>
      [] flag = "select" -> FALSE
      [] flag = "default" -> (CASE kind = "String" -> [str |-> "user"]
                                [] kind = "Number" -> [num |-> 13]
                                [] OTHER -> [null |-> TRUE])
      [] OTHER -> TRUE

\* the options object of a path declared with the constraint options in flags
FlagOptions(kind, flags) ==
    LET keys == IF kind = "String" THEN flags \ {"enum"} ELSE flags
        set == [k \in keys |-> FlagValue(kind, k)]
    IN IF kind = "ObjectId" THEN Spread(set, [ref |-> "Post"]) ELSE set

\* the SchemaType mongoose builds for such a path
FlagSchemaType(kind, flags) ==
    LET base == [instance |-> kind, options |-> FlagOptions(kind, flags)]
        withEnum == IF kind = "String" /\ "enum" \in flags
                    THEN Spread(base, [enumValues |-> <<[str |-> "user"], [str |-> "admin"]>>])
                    ELSE base
    IN IF "required" \in flags
       THEN Spread(withEnum, [isRequired |-> TRUE, validators |-> <<RequiredValidator>>])
       ELSE withEnum

\* the sets of at most MaxFlags options, and the full set
FlagSets(all) == {s \in SUBSET all : Cardinality(s) <= MaxFlags \/ s = all}

FieldTypes ==
    {FlagSchemaType("String", s) : s \in FlagSets(StringFlags)}
    \cup {FlagSchemaType("Number", s) : s \in FlagSets(NumberFlags)}
    \cup {FlagSchemaType("ObjectId", s) : s \in SUBSET RefFlags}

FieldName == "field"

FieldModel == "Doc"

\* the renderers that print one line per field
FieldFormats == {"compact", "typescript", "graphql"}

InitField ==
    /\ input \in FieldTypes
    /\ impl = "ts"
    /\ options = Empty
    /\ pc = "field"
    /\ models = <<>>
    /\ includeFlags = IncludeFlagsOf(MergedOptions(Empty))
    /\ optsFormat = [null |-> TRUE]
    /\ idx = 1
    /\ schemas = <<>>
    /\ visited = FreshVisited
    /\ result = NoResult
    /\ calls = 1
    /\ prev = NoResult

\* extracted[pathName] = extractCompletePathInfo(schemaType, pathName, 0, options, visited)
WalkField ==
    /\ pc = "field"
    /\ LET r == extractCompletePathInfo(input, FieldName, 0, includeFlags, visited)
       IN /\ schemas' = << <<FieldModel, << <<FieldName, r.info>> >> >> >>
          /\ visited' = r.visited
    /\ pc' = "walked"
    /\ UNCHANGED <<impl, input, options, models, includeFlags, optsFormat, idx,
                   result, calls, prev>>

\* formatSchemas(schemas, format) for one of the line renderers
RenderField ==
    /\ pc = "walked"
    /\ \E f \in FieldFormats :
          /\ optsFormat' = [str |-> f]
          /\ result' = formatSchemas(schemas, [str |-> f])
    /\ pc' = "rendered"
    /\ UNCHANGED <<impl, input, options, models, includeFlags, idx, schemas, visited,
                   calls, prev>>

NextField == WalkField \/ RenderField

SpecField == InitField /\ [][NextField]_vars

----------------------------------------------------------------------------
(* One schema path of every kind walked and rendered, under every depth     *)
(* option and with some schemas already visited in the pass.                *)

\* the kinds the switch of extractCompletePathInfo names
DeclaredKinds ==
    {"String", "Number", "Date", "Boolean", "ObjectId", "ObjectID", "Decimal128",
     "Buffer", "Mixed", "Array", "Embedded", "Document", "Map"}

\* instance names mongoose gives that the switch does not name
OtherKinds == {"BigInt", "UUID", "Point"}

\* a path of a kind that holds no nested SchemaType
PlainType(kind, required) ==
    IF required
    THEN [instance |-> kind, options |-> [required |-> TRUE], isRequired |-> TRUE,
          validators |-> <<RequiredValidator>>]
    ELSE [instance |-> kind, options |-> NoOptions]

\* a path whose SchemaType carries no instance name
BareType == [options |-> NoOptions]

\* the SchemaTypes an Array path casts to, or a Map path holds
ElementTypes ==
    {PlainType(k, FALSE) : k \in {"String", "Number", "Buffer", "Mixed", "BigInt"}}
    \cup {[instance |-> "ObjectId", options |-> [ref |-> "Post"]],
          [instance |-> "Embedded", options |-> NoOptions, schema |-> "CommentSchema"],
          [instance |-> "Embedded", options |-> NoOptions, schema |-> "NodeSchema"],
          [instance |-> "Document", options |-> NoOptions, schema |-> "ASchema"],
          [instance |-> "Map", options |-> NoOptions,
           schemaType |-> [instance |-> "Date", options |-> NoOptions]],
          NestedArray(1), NestedArray(2),
          [instance |-> "Array", options |-> NoOptions,
           caster |-> [instance |-> "ObjectId", options |-> [ref |-> "User"]]],
          [instance |-> "String", options |-> NoOptions,
           enumValues |-> <<[str |-> "user"], [str |-> "admin"]>>]}

ArrayTypes ==
    {PlainType("Array", r) : r \in BOOLEAN}
    \cup {[instance |-> "Array", options |-> NoOptions, caster |-> e] : e \in ElementTypes}
    \cup {[instance |-> "Array", options |-> NoOptions, embeddedSchemaType |-> e]
          : e \in {PlainType("Number", FALSE), NestedArray(1)}}

MapTypes ==
    {PlainType("Map", r) : r \in BOOLEAN}
    \cup {[instance |-> "Map", options |-> NoOptions, schemaType |-> e] : e \in ElementTypes}
    \cup {[instance |-> "Map", options |-> NoOptions, schemaTypeInternal |-> e]
          : e \in {PlainType("String", FALSE)}}

EmbeddedTypes ==
    {PlainType(k, r) : k \in {"Embedded", "Document"}, r \in BOOLEAN}
    \cup {[instance |-> k, options |-> NoOptions, schema |-> s]
          : k \in {"Embedded", "Document"},
            s \in {"NodeSchema", "ASchema", "BSchema", "AddressSchema", "ProfileSchema"}}

\* a default that is a function: its name, and its body as the value a call returns
DefaultFunction(name, body) == [fn |-> name, body |-> body]

\* paths that declare a default: literals, null, and functions of which two share a
\* name and differ in the body
DefaultTypes ==
    {[instance |-> "String", options |-> [default |-> [str |-> "n/a"]]],
     [instance |-> "Number", options |-> [default |-> [num |-> 0]]],
     [instance |-> "Boolean", options |-> [default |-> [bool |-> FALSE]]],
     [instance |-> "Date", options |-> [default |-> [null |-> TRUE]]]}
    \cup {[instance |-> "Date", options |-> [default |-> DefaultFunction(n, b)]]
          : n \in {"now", ""}, b \in {"today", "epoch"}}

KindTypes ==
    {PlainType(k, r) : k \in (DeclaredKinds \cup OtherKinds) \ {"Array", "Map", "Embedded",
                                                                "Document"},
                       r \in BOOLEAN}
    \cup {BareType} \cup ArrayTypes \cup MapTypes \cup EmbeddedTypes \cup DefaultTypes

\* the options the path is walked under: every depth option, and the default
\* feature switched off and on
KindOptions ==
    DepthChoices \cup {[include |-> {}], [include |-> {"defaults"}],
                       [exclude |-> {"defaults"}]}

\* the schemas already visited when the path is reached
VisitedChoices == {{}, {"NodeSchema"}, {"ASchema"}, {"AddressSchema", "BSchema"}}

InitKind ==
    /\ input \in KindTypes
    /\ impl = "ts"
    /\ options \in KindOptions
    /\ pc = "field"
    /\ models = <<>>
    /\ includeFlags = IncludeFlagsOf(MergedOptions(options))
    /\ optsFormat = [null |-> TRUE]
    /\ idx = 1
    /\ schemas = <<>>
    /\ visited \in VisitedChoices
    /\ result = NoResult
    /\ calls = 1
    /\ prev = NoResult

SpecKind == InitKind /\ [][NextField]_vars

----------------------------------------------------------------------------
(* Properties of extractSchemas                                             *)

\* the depth bound a call works under: options.depth, or 10 when it is absent or 0
DepthLimit ==
    IF Has(options, "depth") /\ options.depth # 0 THEN options.depth ELSE DefaultDepth

\* desc is the truncation descriptor: type 'Mixed' with a note
IsTruncation(desc) ==
    /\ Has(desc, "type")
    /\ desc.type = MONGOOSE_TYPES.MIXED
    /\ Has(desc, "note")
    /\ ~Has(desc, "properties")

\* a SchemaType that embeds a sub-document schema
EmbedsSchema(schemaType) ==
    /\ Has(schemaType, "instance")
    /\ schemaType.instance \in {MONGOOSE_TYPES.EMBEDDED, MONGOOSE_TYPES.DOCUMENT}
    /\ Has(schemaType, "schema")

\* In the descriptor desc of schemaType, reached at the given depth below the
\* schemas in onPath, every field that embeds a schema of its own path is flagged
\* circular and left unexpanded; with cut, a field beyond the depth bound is the
\* truncation descriptor instead.
RECURSIVE CycleClosed(_, _, _, _, _)
CycleClosed(schemaType, desc, depth, onPath, cut) ==
    IF cut /\ depth > DepthLimit THEN IsTruncation(desc)
    ELSE IF EmbedsSchema(schemaType)
    THEN IF schemaType.schema \in onPath
         THEN IsTrue(desc, "circular") /\ ~Has(desc, "properties")
         ELSE Has(desc, "properties") =>
                 LET paths == SchemaHeap[schemaType.schema].paths
                 IN \A i \in 1..Len(paths) :
                       HasKey(desc.properties, paths[i][1]) =>
                          CycleClosed(paths[i][2], Get(desc.properties, paths[i][1]),
                                      depth + 1, onPath \cup {schemaType.schema}, cut)
    ELSE IF ItemSchemaType(schemaType) # <<>> /\ Has(desc, "items")
    THEN CycleClosed(ItemSchemaType(schemaType)[1], desc.items, depth + 1, onPath, cut)
    ELSE IF ValueSchemaType(schemaType) # <<>> /\ Has(desc, "values")
    THEN CycleClosed(ValueSchemaType(schemaType)[1], desc.values, depth + 1, onPath, cut)
    ELSE TRUE

\* the same, for the mapping entry extracted for a model
ModelCycleClosed(model, extracted, cut) ==
    \/ extracted = CircularRoot
    \/ LET paths == SchemaHeap[model.schema].paths
       IN \A i \in 1..Len(paths) :
             HasKey(extracted, paths[i][1]) =>
                CycleClosed(paths[i][2], Get(extracted, paths[i][1]), 0, {model.schema}, cut)

\* the model whose entry the loop of extractSchemas has just written
JustExtracted ==
    /\ pc = "loop"
    /\ idx > 1
    /\ Has(models[idx - 1][2], "schema")

\* the model the loop of extractSchemas is about to walk
AboutToWalk ==
    /\ pc = "loop"
    /\ idx <= Len(models)
    /\ Has(models[idx][2], "schema")

\* C1 (as amended): the walk of every model returns, also over schemas that embed
\* themselves directly or through another schema, having visited a finite set of
\* schemas; and in the entry it writes, a field that closes a cycle within the depth
\* bound is flagged circular = true and not expanded again, while a field beyond the
\* depth bound is the truncation descriptor; a model whose schema was walked before
\* is the root-level Circular.
CycleClosedOrTruncated ==
    /\ AboutToWalk =>
          extractCompleteMongooseSchema(models[idx][2], includeFlags, visited).visited
             \in SUBSET SchemaIds
    /\ JustExtracted =>
          /\ HasKey(schemas, models[idx - 1][1])
          /\ ModelCycleClosed(models[idx - 1][2], Get(schemas, models[idx - 1][1]), TRUE)

\* C1 witness: the self-embedding Node schema was walked and its field `child`,
\* which closes the cycle, is flagged circular
CycleFlagged ==
    /\ JustExtracted
    /\ models[idx - 1][2].schema = "NodeSchema"
    /\ HasKey(schemas, "Node")
    /\ HasKey(Get(schemas, "Node"), "child")
    /\ IsTrue(Get(Get(schemas, "Node"), "child"), "circular")

\* C1 as stated: at any options.depth the field that closes a cycle is flagged
\* circular = true (or the model is the root-level Circular)
CycleAlwaysFlagged ==
    JustExtracted =>
       /\ HasKey(schemas, models[idx - 1][1])
       /\ ModelCycleClosed(models[idx - 1][2], Get(schemas, models[idx - 1][1]), FALSE)

\* every descriptor nested directly in desc is the truncation descriptor
NestedTruncated(desc) ==
    /\ Has(desc, "items") => IsTruncation(desc.items)
    /\ Has(desc, "values") => IsTruncation(desc.values)
    /\ Has(desc, "properties") =>
          \A i \in 1..Len(desc.properties) : IsTruncation(desc.properties[i][2])

\* C2 as stated: with options.depth = 0 every descriptor nested at depth > 0 (array
\* items, embedded-document properties, map values) is the truncation descriptor
DepthZeroTruncates ==
    (JustExtracted /\ Has(options, "depth") /\ options.depth = 0) =>
       LET extracted == Get(schemas, models[idx - 1][1])
       IN \A i \in 1..Len(extracted) : NestedTruncated(extracted[i][2])

\* a call has ended: extractSchemas returned or threw
Ended == pc \in {"returned", "thrown"}

\* C3: a second extractSchemas call on the same input with the same options ends as
\* the first did, with a structurally equal result
Idempotent == (Ended /\ calls >= 2) => result = prev

\* C3 witness: a second call has returned a mapping whose walk visited schemas
SecondCallReturned ==
    /\ pc = "returned"
    /\ calls = 2
    /\ Has(result, "mapping")
    /\ Len(result.mapping) > 0
    /\ visited # {}

\* the keys extractCompletePathInfo writes for defaults, indexes and validators
FeatureKeys ==
    {"hasDefault", "defaultValue", "indexed", "sparse", "hasValidators", "validators",
     "validatorCount"}

\* desc, and every descriptor nested in it, carries no feature key and is neither a
\* virtual nor a timestamp descriptor
RECURSIVE Suppressed(_)
Suppressed(desc) ==
    /\ DOMAIN desc \cap FeatureKeys = {}
    /\ ~(Has(desc, "type") /\ desc.type = MONGOOSE_TYPES.VIRTUAL)
    /\ ~Has(desc, "computed")
    /\ ~Has(desc, "auto")
    /\ Has(desc, "items") => Suppressed(desc.items)
    /\ Has(desc, "values") => Suppressed(desc.values)
    /\ Has(desc, "properties") =>
          \A i \in 1..Len(desc.properties) : Suppressed(desc.properties[i][2])

\* the call passes include: [] and leaves exclude at its default
IncludeNone ==
    /\ Has(options, "include")
    /\ options.include = {}
    /\ ~Has(options, "exclude")

\* C4: with include: [] and the default exclude, no descriptor of any model, at any
\* nesting level, carries hasDefault, defaultValue, indexed, sparse, hasValidators,
\* validators or validatorCount, and no virtual or timestamp descriptor is appended
IncludeNoneSuppresses ==
    (IncludeNone /\ pc \in {"loop", "returned"}) =>
       \A m \in 1..Len(schemas) :
          \A i \in 1..Len(schemas[m][2]) : Suppressed(schemas[m][2][i][2])

\* C4 witness: a call with include: [] returned the User and Post entries, whose
\* schemas declare defaults, indexes, validators, virtuals and timestamps
IncludeNoneReturned ==
    /\ IncludeNone
    /\ pc = "returned"
    /\ KeySet(schemas) = {"User", "Post"}
    /\ HasKey(Get(schemas, "User"), "email")
    /\ HasKey(Get(schemas, "Post"), "createdAt")

\* the call names the format f
FormatIs(f) == Has(options, "format") /\ options.format = [str |-> f]

\* C7 as stated: a call with format 'llm-compact' returns the compact text, the
\* string formatCompact produces for the extracted mapping, never the mapping
LlmCompactRendered ==
    (Ended /\ FormatIs("llm-compact")) =>
       /\ pc = "returned"
       /\ result = [text |-> formatCompact(schemas)]

\* the errors the input dispatch of extractSchemas throws
InputErrors ==
    {"Input is required - provide mongoose instance, model, or models object",
     "Invalid input type - expected mongoose instance, model, or models object"}

\* format names that are no key of the formatters table, in any letter case
UnknownFormats == {"xml", "constructor", "__proto__"}

\* format values for which extractSchemas returns before any renderer is looked up
RawFormats == {[null |-> TRUE], [str |-> ""], [str |-> "raw"]}

\* C8 as stated: no call fails because of its format name; an unrecognized name
\* returns the extracted mapping unchanged, and so do null, '' and 'raw'
FormatNeverFails ==
    /\ pc = "thrown" => result.error \in InputErrors
    /\ (pc = "returned" /\ Has(options, "format")
          /\ (options.format \in RawFormats
                \/ options.format \in {[str |-> f] : f \in UnknownFormats})) =>
          result = [mapping |-> schemas]

\* an array input none of whose elements has a modelName
NoUsableEntries ==
    /\ Has(input, "array")
    /\ \A i \in 1..Len(input.array) :
          ~(Has(input.array[i], "modelName") /\ input.array[i].modelName # "")

\* C9 as stated: a missing input, an input that is no object, and an array without
\* a usable model entry are rejected with an error and nothing is extracted
InvalidInputRejected ==
    (\/ input.typeof \in {"undefined", "number", "string"}
     \/ Has(input, "null")
     \/ NoUsableEntries) =>
       /\ pc \in {"start", "thrown"}
       /\ pc = "thrown" => result.error \in InputErrors

\* the names of the registry entries whose model has a schema
SchemaNames(entries) ==
    {entries[i][1] : i \in {j \in 1..Len(entries) : Has(entries[j][2], "schema")}}

\* C10: for a registry input, a model without a schema is left out without an error
\* being raised for it, and the result's key set is exactly the names of the
\* registry's models that have a schema
MissingSchemaSkipped ==
    Has(input, "models") =>
       /\ pc = "thrown" => idx > Len(models)
       /\ pc = "returned" => KeySet(schemas) = SchemaNames(input.models)
       /\ (pc = "returned" /\ Has(result, "mapping")) =>
             KeySet(result.mapping) = SchemaNames(input.models)

\* C10 witness: a call on a registry that holds a model without a schema returned a
\* mapping with the entries of the other models
SkippedAndReturned ==
    /\ Has(input, "models")
    /\ pc = "returned"
    /\ \E i \in 1..Len(input.models) : ~Has(input.models[i][2], "schema")
    /\ Has(result, "mapping")
    /\ Len(result.mapping) = Len(input.models) - 1
    /\ Len(result.mapping) > 0

----------------------------------------------------------------------------
(* Properties of the renderers, over one walked and rendered path           *)

\* the constraint option k is set on the drawn path
Declared(k) == k \in DOMAIN input.options

\* the constraint tokens the compact format documents for the drawn path, in the
\* documented order
ExpectedConstraints ==
    (IF Declared("required") THEN <<"required">> ELSE <<>>)
    \o (IF Declared("unique") THEN <<"unique">> ELSE <<>>)
    \o (IF Declared("index") THEN <<"indexed">> ELSE <<>>)
    \o (IF Declared("lowercase") THEN <<"lowercase">> ELSE <<>>)
    \o (IF Declared("uppercase") THEN <<"uppercase">> ELSE <<>>)
    \o (IF Declared("trim") THEN <<"trim">> ELSE <<>>)
    \o (CASE Declared("minlength") /\ Declared("maxlength") -> <<"3-30 chars">>
          [] Declared("minlength") /\ ~Declared("maxlength") -> <<"min 3 chars">>
          [] ~Declared("minlength") /\ Declared("maxlength") -> <<"max 30 chars">>
          [] OTHER -> <<>>)
    \o (CASE Declared("min") /\ Declared("max") -> <<"range: 13-120">>
          [] Declared("min") /\ ~Declared("max") -> <<"min: 13">>
          [] ~Declared("min") /\ Declared("max") -> <<"max: 120">>
          [] OTHER -> <<>>)
    \o (IF Declared("match") THEN <<"pattern: /^d+$/">> ELSE <<>>)
    \o (CASE Has(input, "enumValues") -> <<"enum: [user, admin]">>
          [] Declared("enum") -> <<"enum: [13, 120]">>
          [] OTHER -> <<>>)
    \o (IF Declared("sparse") THEN <<"sparse">> ELSE <<>>)
    \o (IF Declared("immutable") THEN <<"immutable">> ELSE <<>>)
    \o (IF Declared("select") THEN <<"not selected">> ELSE <<>>)

\* the default clause documented for the drawn path
ExpectedDefault ==
    IF ~Declared("default") THEN ""
    ELSE ", default: " \o (CASE input.instance = "String" -> "user"
                             [] input.instance = "Number" -> "13"
                             [] OTHER -> "null")

\* the type label documented for the drawn path
ExpectedLabel ==
    IF Declared("ref") THEN "ObjectId, ref: " \o input.options.ref ELSE input.instance

\* the compact text documented for the one-field model
ExpectedCompact ==
    "**" \o FieldModel \o "**\n- " \o FieldName \o " (" \o ExpectedLabel
    \o (IF ExpectedConstraints = <<>> THEN ""
        ELSE ", " \o Join(ExpectedConstraints, ", "))
    \o ExpectedDefault \o ")"

\* the drawn path was rendered in the format f
Rendered(f) == pc = "rendered" /\ optsFormat = [str |-> f]

\* C5: a scalar field with ref 'Post' is rendered with the type label
\* 'ObjectId, ref: Post' by the compact renderer, with the type 'string | IPost' by
\* the TypeScript renderer and with the type 'Post' by the GraphQL renderer, under
\* every combination of its other constraint options
RefRendered ==
    (pc = "rendered" /\ Declared("ref") /\ input.options.ref = "Post") =>
       /\ Rendered("compact") =>
             result = [text |-> "**Doc**\n- field (ObjectId, ref: Post"
                                \o (IF ExpectedConstraints = <<>> THEN ""
                                    ELSE ", " \o Join(ExpectedConstraints, ", "))
                                \o ExpectedDefault \o ")"]
       /\ Rendered("typescript") =>
             result = [text |-> "export interface IDoc {\n  field"
                                \o (IF Declared("required") THEN "" ELSE "?")
                                \o ": string | IPost;\n}\n\n"]
       /\ Rendered("graphql") =>
             result = [text |-> "type Doc {\n  field: Post"
                                \o (IF Declared("required") THEN "!" ELSE "")
                                \o "\n}\n\n"]

\* C5 witness: a reference to Post declared with every other constraint option was
\* rendered by the compact renderer
RefRenderedWithAllFlags ==
    /\ Rendered("compact")
    /\ DOMAIN input.options = RefFlags \cup {"ref"}
    /\ input.options.ref = "Post"
    /\ Has(result, "text")

\* the String path declared required, unique, minlength 3, maxlength 30
UsernameLike == FlagSchemaType("String", {"required", "unique", "minlength", "maxlength"})

----------------------------------------------------------------------------
(* Properties of one path of every kind: SpecKind                           *)

\* the descriptor extractCompletePathInfo returned for the drawn path
FieldDescriptor == Get(Get(schemas, FieldModel), FieldName)

\* the drawn path has been walked
Walked == pc \in {"walked", "rendered"}

\* the type label documented for each declared kind
MappedLabel(kind) ==
    CASE kind \in {"ObjectId", "ObjectID"} -> "ObjectId"
      [] kind \in {"Embedded", "Document"} -> "Object"
      [] OTHER -> kind

\* C11: a single path of a declared kind, walked at depth 0, gets exactly the mapped
\* type label: String, Number, Date, Boolean, Decimal128, Buffer, Mixed, Array and
\* Map map to themselves, 'ObjectId' and the legacy 'ObjectID' to 'ObjectId',
\* 'Embedded' and 'Document' to 'Object'
KindLabelMapped ==
    (Walked /\ Has(input, "instance") /\ input.instance \in DeclaredKinds) =>
       /\ Has(FieldDescriptor, "type")
       /\ FieldDescriptor.type = MappedLabel(input.instance)

\* C11 witness: a path of the legacy kind 'ObjectID' was walked and labelled 'ObjectId'
LegacyObjectIdWalked ==
    /\ Walked
    /\ Has(input, "instance")
    /\ input.instance = "ObjectID"
    /\ FieldDescriptor.type = "ObjectId"

----------------------------------------------------------------------------
(* Properties of one constrained path: SpecField, continued                 *)

\* the Number path declared with min 13 and no max
LowerBoundOnly == FlagSchemaType("Number", {"min"})

\* C12: the compact renderer prints a Number field that has only the lower bound
\* min = 13 as '(Number, min 13)'
LowerBoundRendered ==
    (Rendered("compact") /\ input = LowerBoundOnly) =>
       result = [text |-> "**Doc**\n- field (Number, min 13)"]

----------------------------------------------------------------------------
(* Properties of extractSchemas, continued                                  *)

\* the include and exclude lists the call works under
Included == IF Has(options, "include") THEN options.include ELSE DefaultInclude

Excluded == IF Has(options, "exclude") THEN options.exclude ELSE {}

\* the options of the call have been resolved into includeFlags
Resolved == pc \in {"loop", "returned"}

\* the schema of the model walked last declares the path or virtual name
SchemaDeclares(name) ==
    LET schema == SchemaHeap[models[idx - 1][2].schema]
    IN \/ \E i \in 1..Len(schema.paths) : schema.paths[i][1] = name
       \/ Has(schema, "virtuals") /\ \E i \in 1..Len(schema.virtuals) : schema.virtuals[i] = name

----------------------------------------------------------------------------
(* Properties of one path of every kind: SpecKind, continued                *)

\* the descriptor carries no enum, no ref and no nested shape and is no Array
PlainDescriptor ==
    /\ DOMAIN FieldDescriptor \cap {"enum", "ref", "items", "properties", "values"} = {}
    /\ FieldDescriptor.type # "Array"

\* the TypeScript type documented for a descriptor type
DocumentedTsType(type) ==
    CASE type \in {"String", "ObjectId"} -> "string"
      [] type = "Number" -> "number"
      [] type = "Boolean" -> "boolean"
      [] type = "Date" -> "Date"
      [] type = "Decimal128" -> "Decimal"
      [] OTHER -> "any"

\* C14: the TypeScript renderer maps a field without enum, ref or nested shape by
\* its type: String to string, Number to number, Boolean to boolean, Date to Date,
\* ObjectId to string, Decimal128 to Decimal, and Buffer, Mixed, Virtual and any
\* other type to 'any'
TsTypeMapped ==
    (Rendered("typescript") /\ PlainDescriptor) =>
       result = [text |-> "export interface IDoc {\n  field"
                          \o (IF IsTrue(FieldDescriptor, "required") THEN "" ELSE "?")
                          \o ": " \o DocumentedTsType(FieldDescriptor.type) \o ";\n}\n\n"]

\* the GraphQL type documented for a descriptor type
DocumentedGqlType(type) ==
    CASE type \in {"String", "Boolean"} -> type
      [] type = "Number" -> "Float"
      [] type = "Date" -> "DateTime"
      [] type = "ObjectId" -> "ID"
      [] type = "Decimal128" -> "Decimal"
      [] OTHER -> "JSON"

\* C15: the GraphQL renderer maps a field without ref, circular flag or Array type
\* by its type: String to String, Number to Float, Boolean to Boolean, Date to
\* DateTime, ObjectId to ID, Decimal128 to Decimal, every other type to 'JSON'; a
\* required field gets the marker '!'
GqlTypeMapped ==
    (/\ Rendered("graphql")
     /\ ~Has(FieldDescriptor, "ref")
     /\ ~Has(FieldDescriptor, "circular")
     /\ FieldDescriptor.type # "Array") =>
       result = [text |-> "type Doc {\n  field: " \o DocumentedGqlType(FieldDescriptor.type)
                          \o (IF IsTrue(FieldDescriptor, "required") THEN "!" ELSE "")
                          \o "\n}\n\n"]

----------------------------------------------------------------------------
(* Properties of extractSchemas: what a call leaves alone                   *)

\* a step of one extractSchemas call keeps the input and the options of the call; a
\* step of the loop keeps the registry and only adds to the visited set; the step
\* that renders or returns keeps the registry, the visited set and the mapping
KeepsInputs ==
    /\ input' = input
    /\ options' = options
    /\ (pc = "loop" /\ pc' = "loop") =>
          /\ models' = models
          /\ visited \subseteq visited'
          /\ \A k \in KeySet(schemas) :
                k # models[idx][1] => (HasKey(schemas', k) /\ Get(schemas', k) = Get(schemas, k))
    /\ (pc = "loop" /\ pc' \in {"returned", "thrown"}) =>
          /\ models' = models
          /\ visited' = visited
          /\ schemas' = schemas

\* C16: extraction and rendering leave their inputs unchanged: the registry and the
\* options are as before after every step, the visited set only grows during the
\* walk, and the mapping handed to a renderer is unchanged after it has rendered
InputsUnchanged == [][KeepsInputs]_vars

\* C16 witness: a renderer has returned text for a mapping whose walk visited schemas
RenderedFromWalk ==
    /\ pc = "returned"
    /\ Has(result, "text")
    /\ Len(schemas) > 0
    /\ visited # {}
    /\ input = Mongoose(<<UserModel, PostModel>>)

----------------------------------------------------------------------------
(* Properties of extractSchemas: the depth bound                            *)

\* the type a path is given when it is extracted in full
FullType(schemaType) ==
    IF Has(schemaType, "instance") THEN MappedLabel(schemaType.instance)
    ELSE MONGOOSE_TYPES.MIXED

\* the levels of descriptors nested below desc
RECURSIVE Nesting(_)
Nesting(desc) ==
    LET below == (IF Has(desc, "items") THEN {Nesting(desc.items)} ELSE {})
                 \cup (IF Has(desc, "values") THEN {Nesting(desc.values)} ELSE {})
                 \cup (IF Has(desc, "properties")
                       THEN {Nesting(desc.properties[i][2]) : i \in 1..Len(desc.properties)}
                       ELSE {})
    IN IF below = {} THEN 0 ELSE 1 + CHOOSE n \in below : \A m \in below : m <= n

\* desc, produced for schemaType at the given depth under the bound n, is the
\* truncation descriptor without nested shape when depth > n, and is extracted in
\* full otherwise: it has the type of its kind and the nested shape of its kind,
\* whose descriptors are bounded in turn
RECURSIVE Bounded(_, _, _, _)
Bounded(schemaType, desc, depth, n) ==
    IF depth > n
    THEN /\ IsTruncation(desc)
         /\ DOMAIN desc \cap {"items", "properties", "values"} = {}
    ELSE /\ Has(desc, "type")
         /\ desc.type = FullType(schemaType)
         /\ ~Has(desc, "note")
         /\ (desc.type = "Array" /\ ItemSchemaType(schemaType) # <<>>) =>
               /\ Has(desc, "items")
               /\ Bounded(ItemSchemaType(schemaType)[1], desc.items, depth + 1, n)
         /\ (desc.type = "Map" /\ ValueSchemaType(schemaType) # <<>>) =>
               /\ Has(desc, "values")
               /\ Bounded(ValueSchemaType(schemaType)[1], desc.values, depth + 1, n)
         /\ EmbedsSchema(schemaType) =>
               \/ IsTrue(desc, "circular") /\ ~Has(desc, "properties")
               \/ /\ Has(desc, "properties")
                  /\ LET paths == SchemaHeap[schemaType.schema].paths
                     IN \A i \in 1..Len(paths) :
                           ~SkipPath(paths[i][1], includeFlags) =>
                              /\ HasKey(desc.properties, paths[i][1])
                              /\ Bounded(paths[i][2], Get(desc.properties, paths[i][1]),
                                         depth + 1, n)

\* the call passes a positive options.depth
PositiveDepth == Has(options, "depth") /\ options.depth > 0

\* C17: with options.depth = N > 0, every descriptor produced at depth > N is the
\* truncation descriptor of type 'Mixed' with the note and without items, properties
\* or values, no descriptor is nested more than N + 1 levels below a top-level
\* field, and every descriptor at depth <= N is extracted in full
DepthBounded ==
    (PositiveDepth /\ JustExtracted /\ Get(schemas, models[idx - 1][1]) # CircularRoot) =>
       LET extracted == Get(schemas, models[idx - 1][1])
           paths == SchemaHeap[models[idx - 1][2].schema].paths
       IN /\ \A i \in 1..Len(paths) :
                ~SkipPath(paths[i][1], includeFlags) =>
                   /\ HasKey(extracted, paths[i][1])
                   /\ Bounded(paths[i][2], Get(extracted, paths[i][1]), 0, options.depth)
          /\ \A i \in 1..Len(extracted) : Nesting(extracted[i][2]) <= options.depth + 1

\* C17 witness: the Tree schema was walked with options.depth = 1 and the field
\* `grid`, an array of arrays of arrays, was cut two levels down
GridTruncated ==
    /\ JustExtracted
    /\ PositiveDepth
    /\ options.depth = 1
    /\ HasKey(schemas, "Tree")
    /\ HasKey(Get(schemas, "Tree"), "grid")
    /\ Get(Get(schemas, "Tree"), "grid").items.type = "Array"
    /\ IsTruncation(Get(Get(schemas, "Tree"), "grid").items.items)

----------------------------------------------------------------------------
(* Properties of extractSchemas: the shape of descriptors                   *)

\* desc and every descriptor nested in it has the nested shape of its type: items
\* only on an Array, properties and propertyCount only on an Object and together,
\* values only on a Map, and never two of items, properties and values
RECURSIVE ShapeMatchesType(_)
ShapeMatchesType(desc) ==
    /\ Has(desc, "items") => (Has(desc, "type") /\ desc.type = "Array")
    /\ Has(desc, "properties") =>
          (Has(desc, "type") /\ desc.type = "Object" /\ Has(desc, "propertyCount"))
    /\ Has(desc, "propertyCount") => Has(desc, "properties")
    /\ Has(desc, "values") => (Has(desc, "type") /\ desc.type = "Map")
    /\ Cardinality(DOMAIN desc \cap {"items", "properties", "values"}) <= 1
    /\ Has(desc, "items") => ShapeMatchesType(desc.items)
    /\ Has(desc, "values") => ShapeMatchesType(desc.values)
    /\ Has(desc, "properties") =>
          \A i \in 1..Len(desc.properties) : ShapeMatchesType(desc.properties[i][2])

\* C18: every field descriptor of an extracted mapping, at every nesting level, has
\* a nested shape that matches its type: items only when type = 'Array', properties
\* (with propertyCount) only when type = 'Object', values only when type = 'Map',
\* and at most one of the three
ShapesMatchTypes ==
    Resolved =>
       \A m \in 1..Len(schemas) :
          \A i \in 1..Len(schemas[m][2]) : ShapeMatchesType(schemas[m][2][i][2])

\* C18 witness: a mapping was returned that holds an Array with items, a Map with
\* values, an Object with properties and, under a depth bound, a truncated field
ShapesReturned ==
    /\ pc = "returned"
    /\ KeySet(schemas) = {"User", "Post"}
    /\ PositiveDepth
    /\ Has(Get(Get(schemas, "Post"), "tags"), "items")
    /\ Has(Get(Get(schemas, "Post"), "meta"), "values")
    /\ Has(Get(Get(schemas, "User"), "profile"), "properties")
    /\ IsTruncation(Get(Get(Get(schemas, "User"), "profile").properties, "home").properties[1][2])

----------------------------------------------------------------------------
(* Properties of one path of every kind: the visited set                    *)

\* The walk of schemaType replayed against its descriptor desc, from the visited set
\* seen: ok says that every embedded-document field with a sub-schema met on the way
\* is circular = true without properties when its sub-schema was visited before it,
\* and otherwise has properties, with propertyCount their number, and no circular
\* flag; visited is the visited set after the walk. With cut, a field beyond the
\* depth bound is left out of the statement.
RECURSIVE Replay(_, _, _, _, _)
RECURSIVE ReplayPaths(_, _, _, _, _, _)
Replay(schemaType, desc, depth, seen, cut) ==
    IF cut /\ depth > DepthLimit THEN [ok |-> TRUE, visited |-> seen]
    ELSE IF EmbedsSchema(schemaType)
    THEN IF schemaType.schema \in seen
         THEN [ok |-> IsTrue(desc, "circular") /\ ~Has(desc, "properties"), visited |-> seen]
         ELSE IF /\ Has(desc, "properties")
                 /\ Has(desc, "propertyCount")
                 /\ desc.propertyCount = Len(desc.properties)
                 /\ ~Has(desc, "circular")
              THEN ReplayPaths(SchemaHeap[schemaType.schema].paths, 1, desc.properties,
                               depth, seen \cup {schemaType.schema}, cut)
              ELSE [ok |-> FALSE, visited |-> seen]
    ELSE IF ItemSchemaType(schemaType) # <<>> /\ Has(desc, "items")
    THEN Replay(ItemSchemaType(schemaType)[1], desc.items, depth + 1, seen, cut)
    ELSE IF ValueSchemaType(schemaType) # <<>> /\ Has(desc, "values")
    THEN Replay(ValueSchemaType(schemaType)[1], desc.values, depth + 1, seen, cut)
    ELSE [ok |-> TRUE, visited |-> seen]

\* the same over the paths of a sub-schema, from entry i on, in the order of the walk
ReplayPaths(paths, i, properties, depth, seen, cut) ==
    IF i > Len(paths) THEN [ok |-> TRUE, visited |-> seen]
    ELSE IF SkipPath(paths[i][1], includeFlags)
    THEN ReplayPaths(paths, i + 1, properties, depth, seen, cut)
    ELSE IF ~HasKey(properties, paths[i][1]) THEN [ok |-> FALSE, visited |-> seen]
    ELSE LET r == Replay(paths[i][2], Get(properties, paths[i][1]), depth + 1, seen, cut)
         IN IF r.ok THEN ReplayPaths(paths, i + 1, properties, depth, r.visited, cut)
            ELSE r

\* the step that walks the drawn path
WalkStep == pc = "field" /\ pc' = "walked"

\* the descriptor the step writes
WrittenDescriptor == Get(Get(schemas', FieldModel), FieldName)

\* the replay of the step agrees with the descriptor and with the visited set written
ReplayAgrees(r) == r.ok /\ r.visited = visited'

\* C19 (as amended): an embedded-document field with a sub-schema that is reached
\* within the depth bound is circular = true without properties exactly when its
\* sub-schema is already in the visited set of the pass; otherwise the sub-schema is
\* added to the visited set and the field has properties and propertyCount = number
\* of properties; a field beyond the depth bound is neither
CircularIffVisited ==
    [][WalkStep => ReplayAgrees(Replay(input, WrittenDescriptor, 0, visited, TRUE))]_vars

\* C19 witness: a path embedding the Node schema was walked when that schema was
\* already visited, and is flagged circular
VisitedSchemaFlagged ==
    /\ pc = "walked"
    /\ EmbedsSchema(input)
    /\ input.schema = "NodeSchema"
    /\ IsTrue(FieldDescriptor, "circular")
    /\ ~Has(FieldDescriptor, "properties")

\* C19 as stated: at any depth, an embedded-document field with a sub-schema is
\* circular = true without properties exactly when the sub-schema is already visited,
\* and otherwise has properties and propertyCount
CircularIffVisitedAtAnyDepth ==
    [][WalkStep => Replay(input, WrittenDescriptor, 0, visited, FALSE).ok]_vars

\* the closed set of descriptor types the data model documents
DocumentedTypes ==
    {"String", "Number", "Date", "Boolean", "ObjectId", "Decimal128", "Buffer", "Mixed",
     "Array", "Object", "Map", "Virtual", "Circular"}

\* the type of desc and of every descriptor nested in it is a documented type
RECURSIVE TypesDocumented(_)
TypesDocumented(desc) ==
    /\ Has(desc, "type")
    /\ desc.type \in DocumentedTypes
    /\ Has(desc, "items") => TypesDocumented(desc.items)
    /\ Has(desc, "values") => TypesDocumented(desc.values)
    /\ Has(desc, "properties") =>
          \A i \in 1..Len(desc.properties) : TypesDocumented(desc.properties[i][2])

\* C20: the type of every descriptor the Walker emits, for any kind of path, the
\* kinds the switch does not name included, is one of String, Number, Date, Boolean,
\* ObjectId, Decimal128, Buffer, Mixed, Array, Object, Map, Virtual, Circular
TypeInClosedSet == Walked => TypesDocumented(FieldDescriptor)

----------------------------------------------------------------------------
(* Properties of extractCompleteMongooseSchema                              *)

\* the schema of the model whose entry the loop has just written
WalkedSchema == SchemaHeap[models[idx - 1][2].schema]

\* the entry the loop has just written
WalkedEntry == Get(schemas, models[idx - 1][1])

\* the loop has just written the entry of a model whose root schema was not visited
WalkedInFull == JustExtracted /\ WalkedEntry # CircularRoot

\* schema.options?.timestamps is truthy
DeclaresTimestamps(schema) ==
    /\ Has(schema, "options")
    /\ Has(schema.options, "timestamps")
    /\ schema.options.timestamps

\* the descriptor appended for createdAt and updatedAt
TimestampDescriptor == [type |-> "Date", auto |-> TRUE]

\* C21: with includeTimestamps set and timestamp tracking declared by the schema,
\* the createdAt and updatedAt entries of the extracted model are exactly
\* {type: 'Date', auto: true}, whatever a path or a virtual of the same name
\* produced: nothing of the declared descriptor is merged in
TimestampsOverride ==
    (WalkedInFull /\ includeFlags.includeTimestamps /\ DeclaresTimestamps(WalkedSchema)) =>
       /\ HasKey(WalkedEntry, "createdAt")
       /\ Get(WalkedEntry, "createdAt") = TimestampDescriptor
       /\ HasKey(WalkedEntry, "updatedAt")
       /\ Get(WalkedEntry, "updatedAt") = TimestampDescriptor

\* C21 witness: the Post schema, which declares a required createdAt path with a
\* default, was walked with includeTimestamps and includeDefaults set
DeclaredCreatedAtReplaced ==
    /\ WalkedInFull
    /\ models[idx - 1][2].schema = "PostSchema"
    /\ includeFlags.includeTimestamps
    /\ includeFlags.includeDefaults
    /\ Get(WalkedEntry, "createdAt") = TimestampDescriptor

\* the step of the loop that walks the model at idx
RootWalkStep ==
    /\ pc = "loop"
    /\ idx <= Len(models)
    /\ Has(models[idx][2], "schema")
    /\ idx' = idx + 1

\* the entry the step writes for the model at idx
WrittenEntry == Get(schemas', models[idx][1])

\* entry is the root-level descriptor of type 'Circular' and nothing else: no path,
\* no virtual and no timestamp of the model was processed
IsCircularRoot(entry) ==
    /\ KeySet(entry) = {"type", "description"}
    /\ Get(entry, "type") = JsString("Circular")

\* the top-level paths of the schema that embed the schema itself
SelfEmbeddingPaths(schemaId) ==
    LET paths == SchemaHeap[schemaId].paths
    IN {i \in 1..Len(paths) : EmbedsSchema(paths[i][2]) /\ paths[i][2].schema = schemaId}

\* C22: extractCompleteMongooseSchema on a model whose root schema is already in
\* the visited set returns the descriptor of type 'Circular', processes no path,
\* virtual or timestamp and leaves the visited set unchanged; otherwise the root
\* schema is in the visited set before any field is walked, so that a top-level
\* field embedding the root schema itself is flagged circular
RootCircularIffVisited ==
    [][RootWalkStep =>
          IF models[idx][2].schema \in visited
          THEN IsCircularRoot(WrittenEntry) /\ visited' = visited
          ELSE /\ ~IsCircularRoot(WrittenEntry)
               /\ models[idx][2].schema \in visited'
               /\ visited \subseteq visited'
               /\ \A i \in SelfEmbeddingPaths(models[idx][2].schema) :
                     LET name == SchemaHeap[models[idx][2].schema].paths[i][1]
                     IN /\ HasKey(WrittenEntry, name)
                        /\ IsTrue(Get(WrittenEntry, name), "circular")]_vars

\* C22 witness: the A model was walked after the Tree model, whose walk had visited
\* the A schema, and its entry is the root-level Circular
RootFoundVisited ==
    /\ JustExtracted
    /\ idx = 3
    /\ models[1][2].schema = "TreeSchema"
    /\ models[2][2].schema = "ASchema"
    /\ IsCircularRoot(Get(schemas, "A"))
    /\ "ASchema" \in visited

----------------------------------------------------------------------------
(* Properties of one path of every kind: circular fields rendered           *)

\* C23: for an embedded Object field the Walker flagged circular, the TypeScript
\* renderer emits 'any /* circular reference */' and the GraphQL renderer emits
\* 'JSON'
CircularRendered ==
    (pc = "rendered" /\ FieldDescriptor.type = "Object" /\ IsTrue(FieldDescriptor, "circular")) =>
       /\ Rendered("typescript") =>
             result = [text |-> "export interface IDoc {\n  field"
                                \o (IF IsTrue(FieldDescriptor, "required") THEN "" ELSE "?")
                                \o ": any /* circular reference */;\n}\n\n"]
       /\ Rendered("graphql") =>
             result = [text |-> "type Doc {\n  field: JSON"
                                \o (IF IsTrue(FieldDescriptor, "required") THEN "!" ELSE "")
                                \o "\n}\n\n"]

----------------------------------------------------------------------------
(* Properties of extractSchemas: what one walk hands to the next            *)

\* C24: the visited set is scoped to one extractCompleteMongooseSchema call and is
\* not shared by the successive calls extractSchemas makes for the models of one
\* registry: the entry written for a model is the one a walk with a visited set of
\* its own produces
VisitedScopedToWalk ==
    JustExtracted =>
       WalkedEntry = extractCompleteMongooseSchema(models[idx - 1][2], includeFlags, {}).extracted

----------------------------------------------------------------------------
(* Properties of one path of every kind: array elements                     *)

\* the element SchemaType an Array path declares, as a sequence of at most one
DeclaredElement(schemaType) ==
    IF Has(schemaType, "caster") THEN <<schemaType.caster>>
    ELSE IF Has(schemaType, "embeddedSchemaType") THEN <<schemaType.embeddedSchemaType>>
    ELSE <<>>

\* the reference a SchemaType declares, as a sequence of at most one
DeclaredRef(schemaType) ==
    IF Has(schemaType, "options") /\ Has(schemaType.options, "ref")
    THEN <<schemaType.options.ref>> ELSE <<>>

\* In desc, produced for schemaType at the given depth, and in every descriptor
\* nested in it, an Array with an element has items, of the element's type or cut
\* at the depth bound, with items.ref the element's reference exactly when the
\* element declares one; an Array without element has no items.
RECURSIVE ElementsHoisted(_, _, _)
ElementsHoisted(schemaType, desc, depth) ==
    IF depth > DepthLimit THEN TRUE
    ELSE IF desc.type = "Array"
    THEN LET element == DeclaredElement(schemaType)
         IN IF element = <<>> THEN ~Has(desc, "items")
            ELSE /\ Has(desc, "items")
                 /\ IF depth + 1 > DepthLimit THEN IsTruncation(desc.items)
                    ELSE desc.items.type = FullType(element[1])
                 /\ IF DeclaredRef(element[1]) = <<>> THEN ~Has(desc.items, "ref")
                    ELSE Has(desc.items, "ref") /\ desc.items.ref = DeclaredRef(element[1])[1]
                 /\ ElementsHoisted(element[1], desc.items, depth + 1)
    ELSE IF desc.type = "Map" /\ Has(desc, "values")
    THEN ElementsHoisted(ValueSchemaType(schemaType)[1], desc.values, depth + 1)
    ELSE IF Has(desc, "properties")
    THEN LET paths == SchemaHeap[schemaType.schema].paths
         IN \A i \in 1..Len(paths) :
               HasKey(desc.properties, paths[i][1]) =>
                  ElementsHoisted(paths[i][2], Get(desc.properties, paths[i][1]), depth + 1)
    ELSE TRUE

\* the items of a top-level Array are the descriptor extractCompletePathInfo gives
\* for the element at depth 1, with the element's reference set on it
ItemsFromElement(element, items, walk) ==
    items = IF DeclaredRef(element) = <<>> THEN walk.info
            ELSE Set(walk.info, "ref", DeclaredRef(element)[1])

\* C25: the items of an Array field with an element are the result of
\* extractCompletePathInfo on the element at depth + 1, with items.ref set to the
\* element's declared reference exactly when it declares one, also when items is
\* the truncation descriptor; an Array field without element gets no items
ArrayItemsHoisted ==
    [][WalkStep =>
          /\ ElementsHoisted(input, WrittenDescriptor, 0)
          /\ (WrittenDescriptor.type = "Array" /\ DeclaredElement(input) # <<>>) =>
                ItemsFromElement(DeclaredElement(input)[1], WrittenDescriptor.items,
                                 extractCompletePathInfo(DeclaredElement(input)[1], "", 1,
                                                         includeFlags, visited))]_vars

\* C25 witness: an array of arrays of references to User was walked with
\* options.depth = 1: the inner items are cut and still carry the reference
TruncatedItemsKeepRef ==
    /\ pc = "walked"
    /\ PositiveDepth
    /\ options.depth = 1
    /\ FieldDescriptor.type = "Array"
    /\ Has(FieldDescriptor, "items")
    /\ FieldDescriptor.items.type = "Array"
    /\ Has(FieldDescriptor.items, "items")
    /\ IsTruncation(FieldDescriptor.items.items)
    /\ Has(FieldDescriptor.items.items, "ref")
    /\ FieldDescriptor.items.items.ref = "User"

----------------------------------------------------------------------------
(* Properties of extractCompleteMongooseSchema: the keys of an entry        *)

\* the names of the paths and the virtuals a schema declares
PathNames(schema) == {schema.paths[i][1] : i \in 1..Len(schema.paths)}

VirtualNames(schema) ==
    IF Has(schema, "virtuals") THEN {schema.virtuals[i] : i \in 1..Len(schema.virtuals)}
    ELSE {}

\* the keys documented for the entry of a model with the given schema
DocumentedKeys(schema) ==
    ((PathNames(schema) \ {"__v"}) \ (IF includeFlags.includeId THEN {} ELSE {"_id"}))
    \cup (IF includeFlags.includeVirtuals
          THEN VirtualNames(schema) \ (IF includeFlags.includeId THEN {} ELSE {"id"})
          ELSE {})
    \cup (IF includeFlags.includeTimestamps /\ DeclaresTimestamps(schema)
          THEN {"createdAt", "updatedAt"} ELSE {})

\* no properties mapping in desc, at any level, has the key '__v'
RECURSIVE NoRevisionKey(_)
NoRevisionKey(desc) ==
    /\ Has(desc, "items") => NoRevisionKey(desc.items)
    /\ Has(desc, "values") => NoRevisionKey(desc.values)
    /\ Has(desc, "properties") =>
          /\ ~HasKey(desc.properties, "__v")
          /\ \A i \in 1..Len(desc.properties) : NoRevisionKey(desc.properties[i][2])

\* a descriptor of the entry is flagged circular or cut at the depth bound
RECURSIVE Degraded(_)
Degraded(desc) ==
    \/ IsTrue(desc, "circular")
    \/ IsTruncation(desc)
    \/ Has(desc, "items") /\ Degraded(desc.items)
    \/ Has(desc, "values") /\ Degraded(desc.values)
    \/ Has(desc, "properties") /\ \E i \in 1..Len(desc.properties) : Degraded(desc.properties[i][2])

\* C26: when the root schema of a model is not already visited, the keys of its
\* entry are exactly the path names without '__v' (and without '_id' unless
\* includeId), the virtual names when includeVirtuals (without 'id' unless
\* includeId) and createdAt and updatedAt when includeTimestamps and the schema
\* declares timestamps, whether or not a field was flagged circular or truncated;
\* '__v' is skipped at root and in every embedded sub-schema
KeysComplete ==
    WalkedInFull =>
       /\ KeySet(WalkedEntry) = DocumentedKeys(WalkedSchema)
       /\ \A i \in 1..Len(WalkedEntry) : NoRevisionKey(WalkedEntry[i][2])

\* C26 witness: the Tree schema was walked with options.depth = 1; its entry holds
\* a circular field and a truncated field, and every sibling after them
DegradedEntryComplete ==
    /\ WalkedInFull
    /\ models[idx - 1][2].schema = "TreeSchema"
    /\ PositiveDepth
    /\ options.depth = 1
    /\ \E i \in 1..Len(WalkedEntry) : Degraded(WalkedEntry[i][2])
    /\ HasKey(WalkedEntry, "dict")

----------------------------------------------------------------------------
(* Properties of one path of every kind: defaults                           *)

\* the drawn path declares a default other than undefined
DeclaresDefault == Has(input, "options") /\ Has(input.options, "default")

\* the default value documented for the drawn path: the literal, or for a function
\* the marker made of its name alone
DocumentedDefault ==
    LET default == input.options.default
    IN IF ~Has(default, "fn") THEN default
       ELSE IF default.fn = "" THEN [str |-> "[Function]"]
       ELSE [str |-> "[Function " \o default.fn \o "]"]

\* C27: a default is captured only when includeDefaults is set and a default other
\* than undefined is declared, null included: then hasDefault = true and
\* defaultValue is the literal, or for a function the marker '[Function <name>]'
\* ('[Function]' without a name); the function is not called, so two functions of
\* the same name and different bodies give the same descriptor
DefaultsCaptured ==
    Walked =>
       IF includeFlags.includeDefaults /\ DeclaresDefault
       THEN /\ IsTrue(FieldDescriptor, "hasDefault")
            /\ Has(FieldDescriptor, "defaultValue")
            /\ FieldDescriptor.defaultValue = DocumentedDefault
       ELSE DOMAIN FieldDescriptor \cap {"hasDefault", "defaultValue"} = {}

\* C27 witness: a path whose default is the function `now` with the body `epoch`
\* was walked with includeDefaults set
NamedFunctionMarked ==
    /\ pc = "walked"
    /\ includeFlags.includeDefaults
    /\ DeclaresDefault
    /\ input.options.default = DefaultFunction("now", "epoch")
    /\ FieldDescriptor.defaultValue = [str |-> "[Function now]"]

----------------------------------------------------------------------------
(* Properties of extractSchemas: what an entry depends on                   *)

\* In desc, produced for schemaType below the schemas in onPath, a field is flagged
\* circular only when it embeds a schema of its own path: a sub-schema embedded a
\* second time without a cycle is expanded.
RECURSIVE OnlyCyclesFlagged(_, _, _)
OnlyCyclesFlagged(schemaType, desc, onPath) ==
    /\ IsTrue(desc, "circular") => (EmbedsSchema(schemaType) /\ schemaType.schema \in onPath)
    /\ (Has(desc, "items") /\ ItemSchemaType(schemaType) # <<>>) =>
          OnlyCyclesFlagged(ItemSchemaType(schemaType)[1], desc.items, onPath)
    /\ (Has(desc, "values") /\ ValueSchemaType(schemaType) # <<>>) =>
          OnlyCyclesFlagged(ValueSchemaType(schemaType)[1], desc.values, onPath)
    /\ (Has(desc, "properties") /\ EmbedsSchema(schemaType)) =>
          LET paths == SchemaHeap[schemaType.schema].paths
          IN \A i \in 1..Len(paths) :
                HasKey(desc.properties, paths[i][1]) =>
                   OnlyCyclesFlagged(paths[i][2], Get(desc.properties, paths[i][1]),
                                     onPath \cup {schemaType.schema})

\* C28: the entry of a model depends on the model and the options alone: a
\* sub-schema embedded without a cycle by two sibling fields or by two models, or
\* that is another model's root schema, is expanded at each place, never flagged
\* circular and never typed 'Circular'
EntryOfModelAlone ==
    JustExtracted =>
       /\ ~IsCircularRoot(WalkedEntry)
       /\ LET paths == WalkedSchema.paths
          IN \A i \in 1..Len(paths) :
                HasKey(WalkedEntry, paths[i][1]) =>
                   OnlyCyclesFlagged(paths[i][2], Get(WalkedEntry, paths[i][1]),
                                     {models[idx - 1][2].schema})

----------------------------------------------------------------------------
(* extractRelationships: src/src/index.ts                                   *)

\* rels.push({ field, type, target, required: fieldInfo.required || false })
Relation(field, type, fieldInfo) ==
    [field |-> field, type |-> type, target |-> fieldInfo.ref,
     required |-> IsTrue(fieldInfo, "required")]

\* the entries pushed for the direct properties of a field that has properties
NestedRelations(fieldName, properties) ==
    Flatten([i \in 1..Len(properties) |->
                IF HasRef(properties[i][2])
                THEN <<Relation(fieldName \o "." \o properties[i][1], "nested-reference",
                                properties[i][2])>>
                ELSE <<>>])

\* variant of FieldRelations that looks at the field alone, not at its properties
FieldRelationsFlat(fieldName, fieldInfo) ==
    (IF HasRef(fieldInfo) THEN <<Relation(fieldName, "reference", fieldInfo)>> ELSE <<>>)
    \o (IF Has(fieldInfo, "type") /\ fieldInfo.type = "Array" /\ Has(fieldInfo, "items")
           /\ HasRef(fieldInfo.items)
        THEN <<[field |-> fieldName, type |-> "array-reference",
                target |-> fieldInfo.items.ref, required |-> IsTrue(fieldInfo, "required")]>>
        ELSE <<>>)

\* the body of the loop over the fields of one model
FieldRelations(fieldName, fieldInfo) ==
    (IF HasRef(fieldInfo) THEN <<Relation(fieldName, "reference", fieldInfo)>> ELSE <<>>)
    \o (IF Has(fieldInfo, "type") /\ fieldInfo.type = "Array" /\ Has(fieldInfo, "items")
           /\ HasRef(fieldInfo.items)
        THEN <<[field |-> fieldName, type |-> "array-reference",
                target |-> fieldInfo.items.ref, required |-> IsTrue(fieldInfo, "required")]>>
        ELSE <<>>)
    \o (IF Has(fieldInfo, "properties")
        THEN NestedRelations(fieldName, fieldInfo.properties) ELSE <<>>)

\* rels of one model
ModelRelations(fields) ==
    Flatten([i \in 1..Len(fields) |-> FieldRelations(fields[i][1], fields[i][2])])

\* the loop over the models: a model is entered when rels.length > 0
RECURSIVE RelationshipsFrom(_, _, _)
RelationshipsFrom(mapping, m, relationships) ==
    IF m > Len(mapping) THEN relationships
    ELSE LET rels == ModelRelations(mapping[m][2])
         IN RelationshipsFrom(mapping, m + 1,
                              IF Len(rels) > 0 THEN Put(relationships, mapping[m][1], rels)
                              ELSE relationships)

\* extractRelationships, from the raw mapping extractSchemas returned
extractRelationships(mapping) == RelationshipsFrom(mapping, 1, <<>>)

\* the options extractRelationships hands to extractSchemas
RelationshipOptions == [format |-> [null |-> TRUE]]

\* the models whose registries extractRelationships is called on
OrderModel == [modelName |-> "Order", schema |-> "OrderSchema"]

RelationModels == {UserModel, PostModel, OrderModel, TreeModel, NodeModel, GhostModel}

RelationRegistries ==
    UNION { { r \in [1..n -> RelationModels] : \A i, j \in 1..n : i # j => r[i] # r[j] }
            : n \in 0..MaxModels }

InitRelationships ==
    /\ input \in {Mongoose(r) : r \in RelationRegistries}
                 \cup {ModelsObject(<<OrderModel>>), SingleModel(OrderModel),
                       [typeof |-> "undefined"]}
    /\ impl \in {"ts", "js"}
    /\ options = RelationshipOptions
    /\ pc = "start"
    /\ models = <<>>
    /\ includeFlags = Empty
    /\ optsFormat = [null |-> TRUE]
    /\ idx = 1
    /\ schemas = <<>>
    /\ visited = {}
    /\ result = NoResult
    /\ calls = 1
    /\ prev = NoResult

\* the rest of extractRelationships, once extractSchemas has returned the mapping
Relate ==
    /\ pc = "returned"
    /\ Has(result, "mapping")
    /\ result' = [relationships |-> extractRelationships(result.mapping)]
    /\ pc' = "related"
    /\ UNCHANGED <<impl, input, options, models, includeFlags, optsFormat, idx,
                   schemas, visited, calls, prev>>

NextRelationships == Resolve \/ SkipModel \/ ExtractModel \/ ReturnRaw \/ Relate

SpecRelationships == InitRelationships /\ [][NextRelationships]_vars

----------------------------------------------------------------------------
(* Properties of extractRelationships                                       *)

\* the entries documented for the fields of one model
DocumentedRelations(fields) ==
    {[field |-> fields[i][1], type |-> "reference", target |-> fields[i][2].ref,
      required |-> IsTrue(fields[i][2], "required")]
       : i \in {j \in 1..Len(fields) : HasRef(fields[j][2])}}
    \cup
    {[field |-> fields[i][1], type |-> "array-reference", target |-> fields[i][2].items.ref,
      required |-> IsTrue(fields[i][2], "required")]
       : i \in {j \in 1..Len(fields) :
                   /\ Has(fields[j][2], "type")
                   /\ fields[j][2].type = "Array"
                   /\ Has(fields[j][2], "items")
                   /\ HasRef(fields[j][2].items)}}
    \cup
    UNION {{[field |-> fields[i][1] \o "." \o fields[i][2].properties[k][1],
             type |-> "nested-reference",
             target |-> fields[i][2].properties[k][2].ref,
             required |-> IsTrue(fields[i][2].properties[k][2], "required")]
              : k \in {n \in 1..Len(fields[i][2].properties) :
                          HasRef(fields[i][2].properties[n][2])}}
           : i \in {j \in 1..Len(fields) : Has(fields[j][2], "properties")}}

\* the entries of a list, as a set
Entries(rels) == {rels[i] : i \in 1..Len(rels)}

\* C29: extractRelationships returns, per model, one 'reference' entry for each
\* top-level field with a ref, one 'array-reference' entry for each Array field
\* whose items carry a ref and one 'nested-reference' entry, named 'parent.child',
\* for each direct property with a ref of a field that has properties; target is the
\* ref and required the field's required flag or false; a model is a key exactly
\* when it has an entry; the mapping behind it is the raw one under default options
RelationshipsListed ==
    pc = "related" =>
       /\ optsFormat = [null |-> TRUE]
       /\ includeFlags = [includeId |-> TRUE, includeTimestamps |-> TRUE,
                          includeVirtuals |-> TRUE, includeIndexes |-> TRUE,
                          includeValidators |-> TRUE, includeDefaults |-> TRUE,
                          depth |-> DefaultDepth]
       /\ KeySet(result.relationships) \subseteq KeySet(schemas)
       /\ \A m \in 1..Len(schemas) :
             LET documented == DocumentedRelations(schemas[m][2])
             IN /\ HasKey(result.relationships, schemas[m][1]) <=> documented # {}
                /\ documented # {} =>
                      /\ Entries(Get(result.relationships, schemas[m][1])) = documented
                      /\ Len(Get(result.relationships, schemas[m][1])) = Cardinality(documented)

\* C29 witness: the relationships of the Order model were returned, the required
\* reference of its embedded shipping document among them
OrderRelated ==
    /\ pc = "related"
    /\ HasKey(result.relationships, "Order")
    /\ [field |-> "shipping.carrier", type |-> "nested-reference", target |-> "Carrier",
        required |-> TRUE] \in Entries(Get(result.relationships, "Order"))
    /\ [field |-> "lines", type |-> "array-reference", target |-> "Product",
        required |-> TRUE] \in Entries(Get(result.relationships, "Order"))
    /\ [field |-> "coupon", type |-> "reference", target |-> "Coupon",
        required |-> FALSE] \in Entries(Get(result.relationships, "Order"))

----------------------------------------------------------------------------
(* Properties of one path of every kind: arrays of a union rendered         *)

\* the element descriptor renders as a union of several members
IsUnionElement(items) == HasRef(items) \/ Has(items, "enum")

\* C30: for an Array field whose items descriptor carries a ref R or an enum, the
\* TypeScript renderer emits an array of the whole element type, 'string | IR' or
\* the union of the enum literals, so that the array suffix applies to the entire
\* union and not only to its last member
ArrayOfWholeUnion ==
    (/\ Rendered("typescript")
     /\ Has(FieldDescriptor, "type")
     /\ FieldDescriptor.type = "Array"
     /\ Has(FieldDescriptor, "items")
     /\ IsUnionElement(FieldDescriptor.items)) =>
       LET element == mapToTypeScriptType(FieldDescriptor.items)
           head == "export interface IDoc {\n  field"
                      \o (IF IsTrue(FieldDescriptor, "required") THEN "" ELSE "?")
                      \o ": "
       IN result \in {[text |-> head \o "(" \o element \o ")[];\n}\n\n"],
                      [text |-> head \o "Array<" \o element \o ">;\n}\n\n"]}

====
